---- MODULE Spec2Model ----
(***************************************************************************)
(* The content indexing and retrieval engine of services/ai/src/indexing:  *)
(* IndexingPipeline (builder.py) over the persisted LanceDB table, the     *)
(* EmbeddingGenerator (embedder.py) and the documents of document.py.      *)
(*                                                                         *)
(* Conventions.  A text is a sequence of one-character strings.  A vector  *)
(* is a sequence of integers, the components of a unit vector times 5, so  *)
(* that the squared Euclidean distance of two vectors is an integer, 25    *)
(* times the distance the store reports.  Python's None                    *)
(* is the string "None".  An operation that can raise returns a record     *)
(* with a field raised; a handler catches exactly where the code catches.  *)
(***************************************************************************)
EXTENDS Integers, Sequences, FiniteSets, TLC

VARIABLES
    store,           \* the persisted table config.database.table_name
    db,              \* IndexingPipeline.db
    content_table,   \* IndexingPipeline.content_table
    model_name,      \* config.embedding.model_name of the current pipeline
    current_result,  \* IndexingPipeline.current_result: a call id, 0 for None
    results,         \* the IndexingResult of every indexing call, by call id
    calls,           \* the frame of every indexing call, by call id
    clock,           \* datetime.utcnow(), as a logical clock that starts at 1
    constructs,      \* pipelines constructed after the first one
    ret,             \* what the last query, stats or clear call returned
    embedder,        \* the EmbeddingGenerator: its configuration, its
                     \* _embedding_cache and the cache file on disk
    text_processor   \* the TextProcessor: its config.chunking, and whether
                     \* LANGCHAIN_AVAILABLE

vars == <<store, db, content_table, model_name, current_result, results,
          calls, clock, constructs, ret, embedder,
          text_processor>>

None == "None"

(***************************** bounds **************************************)

\* indexing calls (index_all_content, index_single_post) in one behaviour
MaxCalls == 2
\* pipelines constructed over the same store after the first one
MaxConstructs == 1
\* longest batch handed to _store_embeddings in StoreSpec
MaxBatch == 2
\* _store_embeddings is called in StoreSpec while the table holds fewer
\* rows than this
MaxRows == 2
\* longest list of texts handed to generate_embeddings_batch in EmbedSpec
MaxTexts == 3

\* passes through the while loop of create_chunks_simple that are followed
MaxIterations == 6

(***************************** texts ***************************************)

Alphabet ==
    <<" ", "a", "b", "p", "y", "t", ".", "P", "T", "_", "%", "e", "s">>

CharCode(c) == CHOOSE i \in 1..Len(Alphabet) : Alphabet[i] = c

IsSpace(c) == c \in {" ", "\n", "\t"}

\* str.strip()
RECURSIVE LStrip(_)
LStrip(s) == IF s # <<>> /\ IsSpace(Head(s)) THEN LStrip(Tail(s)) ELSE s

RECURSIVE RStrip(_)
RStrip(s) ==
    IF s # <<>> /\ IsSpace(s[Len(s)]) THEN RStrip(SubSeq(s, 1, Len(s) - 1)) ELSE s

Strip(s) == RStrip(LStrip(s))

\* `not text or not text.strip()`
IsBlank(s) == s = <<>> \/ Strip(s) = <<>>

\* str.lower() on the alphabet
UpperCase ==
    <<"A", "B", "C", "D", "E", "F", "G", "H", "I", "J", "K", "L", "M",
      "N", "O", "P", "Q", "R", "S", "T", "U", "V", "W", "X", "Y", "Z">>

LowerCase ==
    <<"a", "b", "c", "d", "e", "f", "g", "h", "i", "j", "k", "l", "m",
      "n", "o", "p", "q", "r", "s", "t", "u", "v", "w", "x", "y", "z">>

LowerChar(c) ==
    IF \E k \in 1..26 : UpperCase[k] = c
    THEN LowerCase[CHOOSE k \in 1..26 : UpperCase[k] = c]
    ELSE c

Lower(s) == [i \in 1..Len(s) |-> LowerChar(s[i])]

\* str.split(): the maximal runs of non-whitespace characters
RECURSIVE SplitFrom(_, _, _)
SplitFrom(s, i, cur) ==
    IF i > Len(s)
    THEN IF cur = <<>> THEN <<>> ELSE <<cur>>
    ELSE IF IsSpace(s[i])
         THEN IF cur = <<>>
              THEN SplitFrom(s, i + 1, <<>>)
              ELSE <<cur>> \o SplitFrom(s, i + 1, <<>>)
         ELSE SplitFrom(s, i + 1, Append(cur, s[i]))

Split(s) == SplitFrom(s, 1, <<>>)

Pad3(i) ==
    IF i < 10 THEN "00" \o ToString(i)
    ELSE IF i < 100 THEN "0" \o ToString(i) ELSE ToString(i)

\* f'{category}_{post_slug}_{chunk_index:03d}'
ChunkId(category, post_slug, chunk_index) ==
    category \o "_" \o post_slug \o "_" \o Pad3(chunk_index)

MatchesAt(s, t, i) ==
    i + Len(t) - 1 <= Len(s) /\ SubSeq(s, i, i + Len(t) - 1) = t

\* str.find: the 0-based place of the first occurrence, or -1
RECURSIVE FindFrom(_, _, _)
FindFrom(s, t, i) ==
    IF i + Len(t) - 1 > Len(s) THEN -1
    ELSE IF MatchesAt(s, t, i) THEN i - 1 ELSE FindFrom(s, t, i + 1)

Find(s, t) == FindFrom(s, t, 1)

\* str.count: the occurrences that do not overlap, from the left
RECURSIVE CountFrom(_, _, _)
CountFrom(s, t, i) ==
    IF i + Len(t) - 1 > Len(s) THEN 0
    ELSE IF MatchesAt(s, t, i) THEN 1 + CountFrom(s, t, i + Len(t))
         ELSE CountFrom(s, t, i + 1)

Count(s, t) == CountFrom(s, t, 1)

(***************************** embedding model ***************************)

\* config.embedding: the default model_name, high_quality_model and
\* multilingual_model
DefaultModel == "all-MiniLM-L6-v2"

ModelNames ==
    {"all-MiniLM-L6-v2", "paraphrase-multilingual-MiniLM-L12-v2",
     "all-mpnet-base-v2"}

\* model.get_sentence_embedding_dimension(): 384, 384 and 768 in the real
\* models, 2, 2 and 3 here
EmbeddingDimension(m) == IF m = "all-mpnet-base-v2" THEN 3 ELSE 2

RECURSIVE CodeSum(_)
CodeSum(s) == IF s = <<>> THEN 0 ELSE CharCode(Head(s)) + CodeSum(Tail(s))

\* model.encode(text, normalize_embeddings=True): a deterministic unit
\* vector of the model's dimension
Encode(m, text) ==
    LET k == (CodeSum(text) % 4) + 1
    IN  IF m = "all-mpnet-base-v2"
        THEN <<(<<5, 0, 0>>), (<<0, 5, 0>>), (<<0, 0, 5>>), (<<3, 4, 0>>)>>[k]
        ELSE IF m = "all-MiniLM-L6-v2"
             THEN <<(<<5, 0>>), (<<4, 3>>), (<<3, 4>>), (<<0, 5>>)>>[k]
             ELSE <<(<<0, 5>>), (<<-3, 4>>), (<<-4, 3>>), (<<-5, 0>>)>>[k]

Min(a, b) == IF a < b THEN a ELSE b

Max(a, b) == IF a > b THEN a ELSE b

(***************************** embedding cache ****************************)

\* The EmbeddingGenerator with its cache: cfg holds enable_embedding_cache
\* of config.processing and batch_size, max_sequence_length of
\* config.embedding; a cache is a function from cache keys to vectors.

\* EmbeddingGenerator._get_cache_key; the md5 digest of the text is taken
\* as free of collisions on the texts of the model
\* a key that leaves the text out: one entry per model
ModelOnlyKey(m, text) == <<m, EmbeddingDimension(m), <<>>>>

get_cache_key(m, text) == <<m, EmbeddingDimension(m), text>>

NoCache == [k \in {} |-> <<>>]

\* cache_dir / 'embedding_cache.json': absent, written by json.dump, or
\* left unreadable by a write that failed
NoCacheFile == [state |-> "absent", content |-> NoCache]

\* EmbeddingGenerator._check_cache: <<vector>>, or <<>> for None
check_cache(cfg, cache, m, text) ==
    IF ~cfg.enable_embedding_cache THEN <<>>
    ELSE IF get_cache_key(m, text) \in DOMAIN cache
         THEN <<cache[get_cache_key(m, text)]>>
         ELSE <<>>

\* EmbeddingGenerator._store_cache
store_cache(cfg, cache, m, text, embedding) ==
    IF ~cfg.enable_embedding_cache THEN cache
    ELSE [k \in DOMAIN cache \cup {get_cache_key(m, text)} |->
             IF k = get_cache_key(m, text) THEN embedding ELSE cache[k]]

\* str.rfind('.'): the 0-based place of the last period, or -1
RECURSIVE RFindPeriod(_, _)
RFindPeriod(s, i) ==
    IF i = 0 THEN -1 ELSE IF s[i] = "." THEN i - 1 ELSE RFindPeriod(s, i - 1)

\* EmbeddingGenerator._truncate_text
truncate_text(cfg, text) ==
    LET max_length == cfg.max_sequence_length
        truncated == SubSeq(text, 1, Min(max_length, Len(text)))
        last_period == RFindPeriod(truncated, Len(truncated))
    IN  IF Len(text) > max_length
        THEN IF 10 * last_period > 8 * max_length
             THEN SubSeq(truncated, 1, last_period + 1)
             ELSE truncated
        ELSE text

\* EmbeddingGenerator.generate_embedding on a generator with configuration
\* cfg and cache `cache`: a blank text raises ValueError; a cached text is
\* answered from the cache; fault is "embed" when model.encode raises, which
\* leaves as RuntimeError.  cache is the cache after the call.
generate_embedding(cfg, cache, m, text, fault) ==
    LET cached_embedding == check_cache(cfg, cache, m, text)
        embedding_list == Encode(m, truncate_text(cfg, Strip(text)))
    IN  IF IsBlank(text)
        THEN [raised |-> TRUE, value |-> <<>>, cache |-> cache]
        ELSE IF cached_embedding # <<>>
             THEN [raised |-> FALSE, value |-> cached_embedding[1],
                   cache |-> cache]
        ELSE IF fault = "embed"
             THEN [raised |-> TRUE, value |-> <<>>, cache |-> cache]
             ELSE [raised |-> FALSE, value |-> embedding_list,
                   cache |-> store_cache(cfg, cache, m, text, embedding_list)]

\* the places 1..n in order
Places(n) == [i \in 1..n |-> i]

\* lines 150-164 of generate_embeddings_batch: the places of the cached
\* texts, and the places of the texts to encode, in input order
CachedPlaces(cfg, cache, m, texts) ==
    {i \in 1..Len(texts) :
        ~IsBlank(texts[i]) /\ check_cache(cfg, cache, m, texts[i]) # <<>>}

ValidIndices(cfg, cache, m, texts) ==
    SelectSeq(Places(Len(texts)),
              LAMBDA i : /\ ~IsBlank(texts[i])
                         /\ check_cache(cfg, cache, m, texts[i]) = <<>>)

\* the cache after the embeddings of one encoded batch were stored, each
\* under its original text
RECURSIVE StoreBatchInCache(_, _, _, _, _)
StoreBatchInCache(cfg, cache, m, originals, embeddings) ==
    IF originals = <<>> THEN cache
    ELSE StoreBatchInCache(
             cfg,
             store_cache(cfg, cache, m, Head(originals), Head(embeddings)),
             m, Tail(originals), Tail(embeddings))

\* lines 173-194: the batches of batch_size texts from offset i (0-based)
\* on; batch number b is the one being encoded, and model.encode raises on
\* batch number fault_at (0: on none).  acc is [new_embeddings, cache].
RECURSIVE EncodeBatches(_, _, _, _, _, _, _, _)
EncodeBatches(cfg, m, texts, valid_indices, i, b, fault_at, acc) ==
    LET n == Len(valid_indices)
        last == Min(i + cfg.batch_size, n)
        batch == [j \in 1..(last - i) |->
                     truncate_text(cfg, Strip(texts[valid_indices[i + j]]))]
        batch_embeddings == [j \in 1..Len(batch) |-> Encode(m, batch[j])]
        originals == [j \in 1..Len(batch) |-> texts[valid_indices[i + j]]]
    IN  IF i >= n
        THEN [raised |-> FALSE, new_embeddings |-> acc.new_embeddings,
              cache |-> acc.cache]
        ELSE IF b = fault_at
             THEN [raised |-> TRUE, new_embeddings |-> acc.new_embeddings,
                   cache |-> acc.cache]
             ELSE EncodeBatches(
                      cfg, m, texts, valid_indices, last, b + 1, fault_at,
                      [new_embeddings |->
                           acc.new_embeddings \o batch_embeddings,
                       cache |-> StoreBatchInCache(cfg, acc.cache, m,
                                     originals, batch_embeddings)])

\* lines 207-211: the new embeddings go to the places that are still None
RECURSIVE FillNew(_, _, _, _, _)
FillNew(result, valid_indices, new_embeddings, k, new_embedding_idx) ==
    IF k > Len(valid_indices) THEN result
    ELSE IF result[valid_indices[k]] = <<>>
         THEN FillNew([result EXCEPT ![valid_indices[k]] =
                          <<new_embeddings[new_embedding_idx]>>],
                      valid_indices, new_embeddings, k + 1,
                      new_embedding_idx + 1)
         ELSE FillNew(result, valid_indices, new_embeddings, k + 1,
                      new_embedding_idx)

\* [emb for emb in result if emb is not None]
RECURSIVE DropNoneFrom(_, _)
DropNoneFrom(result, k) ==
    IF k > Len(result) THEN <<>>
    ELSE result[k] \o DropNoneFrom(result, k + 1)

DropNone(result) == DropNoneFrom(result, 1)

\* a combination that returns first the cached embeddings and then the
\* new ones
CachedThenNew(cfg, cache, m, texts, valid_indices, new_embeddings) ==
    [i \in 1..Cardinality(CachedPlaces(cfg, cache, m, texts)) |->
        LET at == SelectSeq(Places(Len(texts)),
                     LAMBDA p : p \in CachedPlaces(cfg, cache, m, texts))
        IN  check_cache(cfg, cache, m, texts[at[i]])[1]]
    \o new_embeddings

\* lines 199-214: cached and new embeddings combined in input order; each
\* place holds <<vector>>, or <<>> for None
CombineEmbeddings(cfg, cache, m, texts, valid_indices, new_embeddings) ==
    LET cached == [i \in 1..Len(texts) |->
                      IF i \in CachedPlaces(cfg, cache, m, texts)
                      THEN check_cache(cfg, cache, m, texts[i])
                      ELSE <<>>]
    IN  DropNone(FillNew(cached, valid_indices, new_embeddings, 1, 1))

\* lines 196-214 of generate_embeddings_batch, after the batches were
\* encoded: an exception of model.encode leaves as RuntimeError
BatchResult(cfg, cache, m, texts, valid_indices, encoded) ==
    IF encoded.raised
    THEN [raised |-> TRUE, value |-> <<>>, cache |-> encoded.cache]
    ELSE [raised |-> FALSE,
          value |-> CombineEmbeddings(cfg, cache, m, texts, valid_indices,
                                      encoded.new_embeddings),
          cache |-> encoded.cache]

\* lines 166-214 of generate_embeddings_batch, for the places valid_indices
\* of the texts to encode
BatchFrom(cfg, cache, m, texts, valid_indices, fault_at) ==
    BatchResult(cfg, cache, m, texts, valid_indices,
                EncodeBatches(cfg, m, texts, valid_indices, 0, 1, fault_at,
                              [new_embeddings |-> <<>>, cache |-> cache]))

\* EmbeddingGenerator.generate_embeddings_batch on a generator with
\* configuration cfg and cache `cache`; model.encode raises on its call
\* number fault_at, if it gets that far.  cache is the cache after the call.
generate_embeddings_batch(cfg, cache, m, texts, fault_at) ==
    IF texts = <<>>
    THEN [raised |-> FALSE, value |-> <<>>, cache |-> cache]
    ELSE BatchFrom(cfg, cache, m, texts, ValidIndices(cfg, cache, m, texts),
                   fault_at)

\* lines 233-253 of create_embedding_vectors: zip(chunks, embeddings), for
\* the outcome batch of generate_embeddings_batch
EmbeddingVectors(m, chunks, batch) ==
    IF batch.raised
    THEN [raised |-> TRUE, error |-> "Failed to generate batch embeddings",
          value |-> <<>>, cache |-> batch.cache]
    ELSE [raised |-> FALSE, error |-> "",
          value |-> [i \in 1..Min(Len(chunks), Len(batch.value)) |->
              [chunk_id |-> chunks[i].chunk_id,
               vector |-> batch.value[i],
               vector_dim |-> Len(batch.value[i]),
               model_name |-> m]],
          cache |-> batch.cache]

\* EmbeddingGenerator.create_embedding_vectors; fault is "embed" when the
\* first model.encode of the call raises
create_embedding_vectors(cfg, cache, m, chunks, fault) ==
    IF chunks = <<>>
    THEN [raised |-> FALSE, error |-> "", value |-> <<>>, cache |-> cache]
    ELSE EmbeddingVectors(
             m, chunks,
             generate_embeddings_batch(
                 cfg, cache, m, [i \in 1..Len(chunks) |-> chunks[i].content],
                 IF fault = "embed" THEN 1 ELSE 0))

(***************************** text processing *****************************)

\* A TextProcessor holds its configuration: chunk_size, chunk_overlap and
\* min_chunk_size of config.chunking, preserve_sections, and whether the
\* langchain splitter could be imported (LANGCHAIN_AVAILABLE).  A chunk is
\* the record of the ContentChunk fields the strategies set.  A strategy
\* ends in a record: raised tells that ContentChunk refused a content and
\* the ValidationError left the call; value is the list it returned.

\* re.sub(r'\s+', ' ', text)
RECURSIVE CollapseWhitespace(_)
CollapseWhitespace(s) ==
    IF s = <<>> THEN <<>>
    ELSE IF IsSpace(Head(s))
         THEN <<" ">> \o CollapseWhitespace(LStrip(Tail(s)))
         ELSE <<Head(s)>> \o CollapseWhitespace(Tail(s))

\* TextProcessor.clean_text; after the first substitution no line break is
\* left for the later ones
clean_text(text) == Strip(CollapseWhitespace(text))

\* text.split('\n')
RECURSIVE SplitLines(_, _)
SplitLines(s, cur) ==
    IF s = <<>> THEN <<cur>>
    ELSE IF Head(s) = "\n" THEN <<cur>> \o SplitLines(Tail(s), <<>>)
         ELSE SplitLines(Tail(s), Append(cur, Head(s)))

RECURSIVE LeadingHashes(_)
LeadingHashes(s) ==
    IF s # <<>> /\ Head(s) = "#" THEN 1 + LeadingHashes(Tail(s)) ELSE 0

RECURSIVE LeadingWhitespace(_)
LeadingWhitespace(s) ==
    IF s # <<>> /\ IsSpace(Head(s)) THEN 1 + LeadingWhitespace(Tail(s)) ELSE 0

Drop(s, n) == SubSeq(s, n + 1, Len(s))

\* re.match(r'^(#{3,})\s+(.+)$', line): <<group(2)>>, or <<>> when the
\* line is no header; a header of hashes and whitespace only gives its
\* last whitespace character as the title
HeaderMatch(line) ==
    LET h == LeadingHashes(line)
        after == Drop(line, h)
        w == LeadingWhitespace(after)
        rest == Drop(after, w)
    IN  IF h < 3 \/ w = 0 THEN <<>>
        ELSE IF rest # <<>> THEN <<rest>>
        ELSE IF w >= 2 THEN << <<after[w]>> >>
        ELSE <<>>

MainContent == <<"M", "a", "i", "n", " ", "C", "o", "n", "t", "e", "n", "t">>

\* `if current_title and current_section.strip()`: the title is <<>> for
\* None and <<t>> for the string t
SectionToSave(current_title, current_section) ==
    IF current_title # <<>> /\ current_title[1] # <<>>
       /\ Strip(current_section) # <<>>
    THEN <<[title |-> current_title[1], content |-> Strip(current_section)]>>
    ELSE <<>>

\* the loop over the lines of extract_sections, from line i on
RECURSIVE SectionsFrom(_, _, _, _)
SectionsFrom(lines, i, current_title, current_section) ==
    IF i > Len(lines) THEN SectionToSave(current_title, current_section)
    ELSE IF HeaderMatch(lines[i]) # <<>>
         THEN SectionToSave(current_title, current_section)
              \o SectionsFrom(lines, i + 1,
                              <<Strip(HeaderMatch(lines[i])[1])>>, <<>>)
         ELSE SectionsFrom(lines, i + 1, current_title,
                           current_section \o lines[i] \o <<"\n">>)

\* TextProcessor.extract_sections
extract_sections(text) ==
    LET sections == SectionsFrom(SplitLines(text, <<>>), 1, <<>>, <<>>)
    IN  IF sections = <<>> /\ Strip(text) # <<>>
        THEN <<[title |-> MainContent, content |-> Strip(text)]>>
        ELSE sections

\* a slice bound i on a sequence of length n: a negative bound counts from
\* the end, and every bound is clamped to 0..n
SliceIndex(i, n) == IF i < 0 THEN Max(i + n, 0) ELSE Min(i, n)

\* str.rfind(sub, lo, hi): the last 0-based place of sub within s[lo:hi],
\* or -1
RFind(s, sub, lo, hi) ==
    LET places == {i \in SliceIndex(lo, Len(s))
                         ..(SliceIndex(hi, Len(s)) - Len(sub)) :
                      SubSeq(s, i + 1, i + Len(sub)) = sub}
    IN  IF places = {} THEN -1
        ELSE CHOOSE i \in places : \A j \in places : j <= i

\* s[lo:hi]
Slice(s, lo, hi) ==
    SubSeq(s, SliceIndex(lo, Len(s)) + 1, SliceIndex(hi, Len(s)))

\* the sentence end is looked for within the last 100 characters
SentenceWindow == 100

\* ContentChunk(...) as the strategies fill it
NewChunk(post_slug, category, content, chunk_index, start_char, end_char, section_title) ==
    [chunk_id |-> ChunkId(category, post_slug, chunk_index),
     post_slug |-> post_slug, category |-> category,
     content |-> content, chunk_index |-> chunk_index,
     start_char |-> start_char, end_char |-> end_char,
     word_count |-> Len(Split(content)),
     section_title |-> section_title]

\* validate_content_not_empty of ContentChunk: `if not v or not v.strip()`
ContentRefused(content) == IsBlank(content)

\* the ValidationError of ContentChunk(...) leaves the call
ValidationError == [raised |-> TRUE, value |-> <<>>]

\* `return chunks`
Returned(chunks) == [raised |-> FALSE, value |-> chunks]

\* the chunks made so far, and then what the rest of the loop ends in
ThenRest(chunks, rest) ==
    IF chunks = <<>> \/ rest.raised THEN rest
    ELSE Returned(chunks \o rest.value)

\* every window passes for large enough
NeverTooSmall(cfg, chunk_content) == FALSE

\* if len(chunk_content) < min_size
TooSmall(cfg, chunk_content) == Len(chunk_content) < cfg.min_chunk_size

\* one pass through the body of the while loop of create_chunks_simple, with
\* the window starting at start: the end of the window, its trimmed text,
\* whether it is skipped, and the start of the next window
SimpleIteration(cfg, text, start) ==
    LET window_end == start + cfg.chunk_size
        search_start == Max(start + cfg.chunk_size - SentenceWindow, start)
        sentence_end == RFind(text, <<".">>, search_start, window_end)
        para_end == RFind(text, <<"\n", "\n">>, search_start, window_end)
        end == IF window_end < Len(text)
               THEN IF sentence_end > start THEN sentence_end + 1
                    ELSE IF para_end > start THEN para_end + 2
                    ELSE window_end
               ELSE window_end
        chunk_content == Strip(Slice(text, start, end))
        skipped == TooSmall(cfg, chunk_content)
    IN  [end |-> end, content |-> chunk_content, skipped |-> skipped,
         start |-> IF skipped THEN end
                   ELSE Max(start + cfg.chunk_size - cfg.chunk_overlap,
                            end - cfg.chunk_overlap)]

\* the while loop of create_chunks_simple over the cleaned text
RECURSIVE SimpleChunksFrom(_, _, _, _, _, _)
SimpleChunksFrom(cfg, text, post_slug, category, start, chunk_index) ==
    IF start >= Len(text) THEN Returned(<<>>)
    ELSE LET it == SimpleIteration(cfg, text, start)
         IN  IF it.skipped
             THEN SimpleChunksFrom(cfg, text, post_slug, category, it.start,
                                   chunk_index)
             ELSE IF ContentRefused(it.content) THEN ValidationError
             ELSE ThenRest(<<NewChunk(post_slug, category, it.content,
                                      chunk_index, start, it.end, <<>>)>>,
                           SimpleChunksFrom(cfg, text, post_slug, category,
                                            it.start, chunk_index + 1))

\* TextProcessor.create_chunks_simple
create_chunks_simple(cfg, text, post_slug, category) ==
    IF IsBlank(text) THEN Returned(<<>>)
    ELSE SimpleChunksFrom(cfg, clean_text(text), post_slug, category, 0, 0)

\* the separators given to RecursiveCharacterTextSplitter
Separators ==
    << <<"\n", "\n">>, <<"\n">>, <<".", " ">>, <<",", " ">>, <<" ">>, <<>> >>

\* the splitter's split on one separator, which stays at the head of the
\* piece that follows it; empty pieces are dropped
RECURSIVE SplitKeepFrom(_, _, _, _)
SplitKeepFrom(s, sep, i, cur) ==
    IF i > Len(s) THEN (IF cur = <<>> THEN <<>> ELSE <<cur>>)
    ELSE IF MatchesAt(s, sep, i)
         THEN (IF cur = <<>> THEN <<>> ELSE <<cur>>)
              \o SplitKeepFrom(s, sep, i + Len(sep), sep)
         ELSE SplitKeepFrom(s, sep, i + 1, Append(cur, s[i]))

\* on the empty separator the pieces are the characters
SplitWith(text, sep) ==
    IF sep = <<>> THEN [i \in 1..Len(text) |-> <<text[i]>>]
    ELSE SplitKeepFrom(text, sep, 1, <<>>)

RECURSIVE Concat(_, _)
Concat(pieces, k) ==
    IF k > Len(pieces) THEN <<>> ELSE pieces[k] \o Concat(pieces, k + 1)

\* the splitter's _join_docs: the pieces joined and stripped, None when
\* nothing is left
JoinDocs(docs) ==
    IF Strip(Concat(docs, 1)) = <<>> THEN <<>> ELSE <<Strip(Concat(docs, 1))>>

\* the splitter drops pieces from the front of the current document until
\* what is left fits the overlap and leaves room for the next piece
RECURSIVE ShrinkDoc(_, _, _, _)
ShrinkDoc(cfg, current_doc, total, len) ==
    IF total > cfg.chunk_overlap \/ (total + len > cfg.chunk_size /\ total > 0)
    THEN ShrinkDoc(cfg, Drop(current_doc, 1), total - Len(current_doc[1]), len)
    ELSE [current_doc |-> current_doc, total |-> total]

\* the splitter's _merge_splits from piece k on: pieces are gathered up to
\* chunk_size, the last chunk_overlap characters are carried over
RECURSIVE MergeSplitsFrom(_, _, _, _, _)
MergeSplitsFrom(cfg, splits, k, current_doc, total) ==
    IF k > Len(splits) THEN JoinDocs(current_doc)
    ELSE LET len == Len(splits[k])
             full == total + len > cfg.chunk_size /\ current_doc # <<>>
             kept == IF full THEN ShrinkDoc(cfg, current_doc, total, len)
                     ELSE [current_doc |-> current_doc, total |-> total]
         IN  (IF full THEN JoinDocs(current_doc) ELSE <<>>)
             \o MergeSplitsFrom(cfg, splits, k + 1,
                                Append(kept.current_doc, splits[k]),
                                kept.total + len)

\* the place of the first separator that occurs in the text; the empty one
\* always does
SeparatorPlace(text, separators) ==
    CHOOSE p \in 1..Len(separators) :
        /\ separators[p] = <<>> \/ Find(text, separators[p]) # -1
        /\ \A j \in 1..(p - 1) :
               separators[j] # <<>> /\ Find(text, separators[j]) = -1

\* RecursiveCharacterTextSplitter._split_text: pieces shorter than
\* chunk_size are merged, longer ones are split on the later separators
RECURSIVE SplitText(_, _, _)
RECURSIVE SplitPieces(_, _, _, _, _)
SplitPieces(cfg, splits, k, good_splits, new_separators) ==
    LET merged == IF good_splits # <<>>
                  THEN MergeSplitsFrom(cfg, good_splits, 1, <<>>, 0)
                  ELSE <<>>
    IN  IF k > Len(splits) THEN merged
        ELSE IF Len(splits[k]) < cfg.chunk_size
             THEN SplitPieces(cfg, splits, k + 1,
                              Append(good_splits, splits[k]), new_separators)
             ELSE merged
                  \o (IF new_separators = <<>> THEN <<splits[k]>>
                      ELSE SplitText(cfg, splits[k], new_separators))
                  \o SplitPieces(cfg, splits, k + 1, <<>>, new_separators)

SplitText(cfg, text, separators) ==
    LET p == SeparatorPlace(text, separators)
        new_separators == IF separators[p] = <<>> THEN <<>>
                          ELSE Drop(separators, p)
    IN  SplitPieces(cfg, SplitWith(text, separators[p]), 1, <<>>,
                    new_separators)

\* the loop over enumerate(text_chunks) of create_chunks_langchain, from
\* the piece of chunk_index k - 1 on
RECURSIVE LangchainChunksFrom(_, _, _, _, _, _, _)
LangchainChunksFrom(cfg, text, text_chunks, post_slug, category, k, start_char) ==
    IF k > Len(text_chunks) THEN Returned(<<>>)
    ELSE LET chunk_content == text_chunks[k]
             found == FindFrom(text, chunk_content, start_char + 1)
             chunk_start == IF found = -1 THEN start_char ELSE found
             chunk_end == chunk_start + Len(chunk_content)
         IN  IF Len(Strip(chunk_content)) < cfg.min_chunk_size
             THEN LangchainChunksFrom(cfg, text, text_chunks, post_slug,
                                      category, k + 1, start_char)
             ELSE IF ContentRefused(Strip(chunk_content))
             THEN ValidationError
             ELSE ThenRest(<<NewChunk(post_slug, category,
                                      Strip(chunk_content), k - 1,
                                      chunk_start, chunk_end, <<>>)>>,
                           LangchainChunksFrom(cfg, text, text_chunks,
                                               post_slug, category, k + 1,
                                               chunk_end))

\* TextProcessor.create_chunks_langchain
create_chunks_langchain(cfg, text, post_slug, category) ==
    IF ~cfg.langchain_available
    THEN create_chunks_simple(cfg, text, post_slug, category)
    ELSE IF IsBlank(text) THEN Returned(<<>>)
    ELSE LangchainChunksFrom(cfg, clean_text(text),
                             SplitText(cfg, clean_text(text), Separators),
                             post_slug, category, 1, 0)

\* the chunks of one large section as create_chunks_simple numbered them
KeepSubChunkIds(section_chunks, post_slug, category, section_title, chunk_index, global_start_char) ==
    [i \in 1..Len(section_chunks) |->
        NewChunk(post_slug, category, section_chunks[i].content,
                 section_chunks[i].chunk_index,
                 section_chunks[i].start_char + global_start_char,
                 section_chunks[i].end_char + global_start_char,
                 section_title)]

\* the chunks of one large section, renumbered from chunk_index on and
\* shifted by global_start_char
SectionSubChunks(section_chunks, post_slug, category, section_title, chunk_index, global_start_char) ==
    [i \in 1..Len(section_chunks) |->
        NewChunk(post_slug, category, section_chunks[i].content,
                 chunk_index + i - 1,
                 section_chunks[i].start_char + global_start_char,
                 section_chunks[i].end_char + global_start_char,
                 section_title)]

\* the loop over the sections of create_chunks_with_sections from section
\* k on; SectionChunksAfter is the loop once section k is dealt with, made
\* being what the section gave
RECURSIVE SectionChunksFrom(_, _, _, _, _, _, _)
RECURSIVE SectionChunksAfter(_, _, _, _, _, _, _, _)
SectionChunksAfter(cfg, sections, post_slug, category, k, chunk_index, global_start_char, made) ==
    IF made.raised THEN made
    ELSE ThenRest(made.value,
                  SectionChunksFrom(
                      cfg, sections, post_slug, category, k + 1,
                      chunk_index + Len(made.value),
                      global_start_char + Len(sections[k].content) + 2))

\* the `for i, chunk in enumerate(section_chunks)` loop on what
\* create_chunks_simple ended in
RenumberedSubChunks(simple, post_slug, category, section_title, chunk_index, global_start_char) ==
    IF simple.raised THEN simple
    ELSE Returned(SectionSubChunks(simple.value, post_slug, category,
                                   section_title, chunk_index,
                                   global_start_char))

SectionChunksFrom(cfg, sections, post_slug, category, k, chunk_index, global_start_char) ==
    IF k > Len(sections) THEN Returned(<<>>)
    ELSE LET section_content == sections[k].content
         IN  SectionChunksAfter(
                 cfg, sections, post_slug, category, k, chunk_index,
                 global_start_char,
                 IF Len(section_content) <= cfg.chunk_size
                 THEN IF ContentRefused(Strip(section_content))
                      THEN ValidationError
                      ELSE Returned(<<NewChunk(
                               post_slug, category, Strip(section_content),
                               chunk_index, global_start_char,
                               global_start_char + Len(section_content),
                               sections[k].title)>>)
                 ELSE RenumberedSubChunks(
                          create_chunks_simple(cfg, section_content,
                                               post_slug, category),
                          post_slug, category, sections[k].title,
                          chunk_index, global_start_char))

\* TextProcessor.create_chunks_with_sections
create_chunks_with_sections(cfg, text, post_slug, category) ==
    IF IsBlank(text) THEN Returned(<<>>)
    ELSE SectionChunksFrom(cfg, extract_sections(text), post_slug, category,
                           1, 0, 0)

\* TextProcessor.create_chunks
create_chunks(cfg, text, post_slug, category) ==
    IF IsBlank(text) THEN Returned(<<>>)
    ELSE IF cfg.preserve_sections
         THEN create_chunks_with_sections(cfg, text, post_slug, category)
    ELSE IF cfg.langchain_available
         THEN create_chunks_langchain(cfg, text, post_slug, category)
         ELSE create_chunks_simple(cfg, text, post_slug, category)

(***************************** corpus **************************************)

\* The content tree: one record per post directory, in the order of
\* discover_posts (the categories in supported_categories order, the
\* directories of a category in iterdir order).  processed_content is the
\* text the loader hands to the TextProcessor.  defect says what is wrong
\* with the directory: "none"; "metadata", a metadata file that
\* ContentMetadata refuses (unknown category or status); "mismatch", a
\* category other than the directory's; "short", a content below
\* min_content_length.
Corpus ==
    << [category |-> "blog", slug |-> "alpha", title |-> <<"P", "y">>,
        status |-> "published", defect |-> "none",
        processed_content |-> <<"p", "y", " ", "a", " ", "t">>],
       [category |-> "blog", slug |-> "gamma", title |-> <<"a">>,
        status |-> "archived", defect |-> "none",
        processed_content |-> <<"b", " ", "a">>],
       [category |-> "blog", slug |-> "epsilon", title |-> <<"b">>,
        status |-> "unknown", defect |-> "metadata",
        processed_content |-> <<"b", " ", "y">>],
       [category |-> "engineering", slug |-> "beta", title |-> <<"T">>,
        status |-> "published", defect |-> "none",
        processed_content |-> <<"t", " ", "b", ".">>],
       [category |-> "engineering", slug |-> "delta", title |-> <<"y">>,
        status |-> "published", defect |-> "short",
        processed_content |-> <<"y">>] >>

Categories == {"blog", "engineering"}

\* config.content.include_drafts
include_drafts == FALSE

\* ContentLoader.should_include_post
should_include_post(post) ==
    IF post.status = "draft" /\ ~include_drafts THEN FALSE
    ELSE IF post.status = "archived" THEN FALSE
    ELSE TRUE

\* ContentLoader.load_metadata raises ValueError
load_metadata_raises(post) == post.defect = "metadata"

\* ContentLoader.load_post raises ValueError: from load_metadata, from the
\* comparison with the directory, from the content length
load_post_raises(post) == post.defect # "none"

\* one pass of the loop of load_all_posts over a discovered directory:
\* "loaded" (appended to posts), "skipped" (continue) or "error" (appended
\* to the local list errors and printed)
LoadOutcome(post) ==
    IF load_metadata_raises(post) THEN "error"
    ELSE IF ~should_include_post(post) THEN "skipped"
    ELSE IF load_post_raises(post) THEN "error"
    ELSE "loaded"

\* the local list errors of load_all_posts when its loop ends
LoadErrors ==
    LET failed == SelectSeq(Corpus, LAMBDA p : LoadOutcome(p) = "error")
    IN  [i \in 1..Len(failed) |->
            "Error loading post from " \o failed[i].category \o "/"
                \o failed[i].slug]

\* ContentLoader.load_all_posts: `return posts`; errors is dropped
load_all_posts == SelectSeq(Corpus, LAMBDA p : LoadOutcome(p) = "loaded")

\* ContentLoader.get_post_by_slug: <<post>>, or <<>> for None
get_post_by_slug(category, slug) ==
    SelectSeq(Corpus, LAMBDA p : /\ p.category = category /\ p.slug = slug
                                 /\ ~load_post_raises(p))

\* self.text_processor.create_chunks(post.processed_content, post.slug,
\* post.category) as the pipeline calls it: the ContentChunk list of the
\* post, or the exception
PostChunks(post) ==
    create_chunks(text_processor.config, post.processed_content, post.slug,
                  post.category)

(***************************** the store ***********************************)

\* The table of db_path named table_name: whether it exists, the width of
\* its vector column (a fixed-size list) and its rows in insertion order.
NoTable == [exists |-> FALSE, width |-> 0, rows |-> <<>>]

\* table.add(data): the store refuses a vector that does not fit the
\* vector column, and then adds nothing
TableAdd(st, data, fault) ==
    IF fault = "store" \/ ~st.exists
       \/ \E i \in 1..Len(data) : Len(data[i].vector) # st.width
    THEN [raised |-> TRUE, store |-> st]
    ELSE [raised |-> FALSE, store |-> [st EXCEPT !.rows = st.rows \o data]]

\* table.delete("category = '<category>'")
TableDeleteCategory(st, category) ==
    [st EXCEPT !.rows = SelectSeq(st.rows, LAMBDA r : r.category # category)]

\* table.delete('chunk_id IS NOT NULL')
TableDeleteAll(st) == [st EXCEPT !.rows = <<>>]

\* table.delete("chunk_id = '<chunk_id>'")
TableDeleteChunk(st, chunk_id) ==
    [st EXCEPT !.rows = SelectSeq(st.rows, LAMBDA r : r.chunk_id # chunk_id)]

\* table.search().where("category = '<category>'").to_list()
TableWhereCategory(st, category) ==
    SelectSeq(st.rows, LAMBDA r : r.category = category)

\* table.count_rows()
TableCountRows(st) == Len(st.rows)

\* len(db) of a connection that has a length: the number of its tables
ConnectionLen(st) == IF st.exists THEN 1 ELSE 0

\* the truth value Python gives a connection handle in `if not self.db`: a
\* handle that is not None and, where connections have a length (sized),
\* whose store holds a table.  Whether a connection has a length differs
\* between releases of the store library, none of which the repository
\* pins.
Truthy(st, sized, handle) ==
    handle # None /\ (sized => ConnectionLen(st) > 0)

\* `if self.content_table:` on a table handle: a LanceDB table has a
\* length, its count_rows(), so a handle on a table without rows is false
\* like None
TableTruthy(st, ct) == ct # None /\ TableCountRows(st) > 0

(***************************** construction ********************************)

\* The calls of the constructor that can raise, and how often each raises
\* before it succeeds.
Sites == {"connect", "table_names", "open_table", "create_table"}

NoFaults == [s \in Sites |-> 0]

FaultScenarios ==
    {NoFaults,
     [NoFaults EXCEPT !["connect"] = 1],
     [NoFaults EXCEPT !["table_names"] = 1],
     [NoFaults EXCEPT !["open_table"] = 1],
     [NoFaults EXCEPT !["create_table"] = 1],
     [NoFaults EXCEPT !["create_table"] = 2]}

Spend(f, site) == IF f[site] > 0 THEN [f EXCEPT ![site] = f[site] - 1] ELSE f

\* the seed row of _recreate_table_with_correct_schema
SampleRow(embedding_dim) ==
    [chunk_id |-> "sample_chunk_001", post_slug |-> "sample-post",
     category |-> "blog", title |-> <<"S">>, content |-> <<"s">>,
     chunk_index |-> 0, start_char |-> 0, end_char |-> 45, word_count |-> 8,
     section_title |-> <<>>, vector |-> [i \in 1..embedding_dim |-> 0],
     vector_dim |-> embedding_dim, model_name |-> "all-MiniLM-L6-v2"]

\* IndexingPipeline._recreate_table_with_correct_schema: drop (a failure
\* of the drop is swallowed), create with the seed row, delete the seed row
recreate_table_with_correct_schema(st, ct, m, f) ==
    LET dropped == [st EXCEPT !.exists = FALSE, !.width = 0, !.rows = <<>>]
        createRaises == f["create_table"] > 0
        f1 == Spend(f, "create_table")
        embedding_dim == EmbeddingDimension(m)
        created == [st EXCEPT !.exists = TRUE, !.width = embedding_dim,
                              !.rows = <<SampleRow(embedding_dim)>>]
    IN  IF createRaises
        THEN [raised |-> TRUE, store |-> dropped, content_table |-> ct,
              faults |-> f1]
        ELSE [raised |-> FALSE,
              store |-> TableDeleteChunk(created, "sample_chunk_001"),
              content_table |-> "table", faults |-> f1]

\* IndexingPipeline._ensure_tables_exist.  `if not self.db` stands before
\* the try block: where connections have a length it lists the tables, and
\* an exception of that listing leaves the method (raised).
ensure_tables_exist(st, sized, d, ct, m, f) ==
    IF d # None /\ sized /\ f["table_names"] > 0
    THEN [raised |-> TRUE, store |-> st, content_table |-> ct]
    ELSE IF ~Truthy(st, sized, d)
    THEN [raised |-> FALSE, store |-> st, content_table |-> ct]
    ELSE LET listRaises == f["table_names"] > 0
             f1 == Spend(f, "table_names")
             missing == ~st.exists
             first == recreate_table_with_correct_schema(st, ct, m, f1)
             openRaises == f1["open_table"] > 0
             f2 == Spend(f1, "open_table")
             \* the state when the except clause is entered
             tried ==
                 IF listRaises
                 THEN [raised |-> TRUE, store |-> st, content_table |-> ct,
                       faults |-> f1]
                 ELSE IF missing THEN first
                 ELSE IF openRaises
                      THEN [raised |-> TRUE, store |-> st,
                            content_table |-> ct, faults |-> f2]
                      ELSE [raised |-> FALSE, store |-> st,
                            content_table |-> "table", faults |-> f2]
             again == recreate_table_with_correct_schema(
                          tried.store, tried.content_table, m, tried.faults)
         IN  IF tried.raised
             THEN [raised |-> FALSE, store |-> again.store,
                   content_table |-> again.content_table]
             ELSE [raised |-> FALSE, store |-> tried.store,
                   content_table |-> tried.content_table]

\* IndexingPipeline.__init__ and _initialize_database: an exception of
\* connect or of _ensure_tables_exist sets db back to None.  sized tells
\* whether the connection that lancedb.connect returns has a length.
initialize_database(st, sized, m, f) ==
    IF f["connect"] > 0
    THEN [store |-> st, db |-> None, content_table |-> None]
    ELSE LET e == ensure_tables_exist(st, sized, "connection", None, m, f)
         IN  [store |-> e.store,
              db |-> IF e.raised THEN None ELSE "connection",
              content_table |-> e.content_table]

(***************************** storing *************************************)

\* the record _store_embeddings builds for pair i (0-based) of the batch
StoreRecord(post, chunk, embedding, i) ==
    LET vector_dim ==
            IF embedding.vector_dim = 0 THEN Len(embedding.vector)
            ELSE embedding.vector_dim
    IN  [chunk_id |-> IF embedding.chunk_id = "" THEN "chunk_" \o ToString(i)
                      ELSE embedding.chunk_id,
         post_slug |-> IF post.slug = "" THEN "unknown" ELSE post.slug,
         category |-> IF post.category = "" THEN "uncategorized"
                      ELSE post.category,
         title |-> IF post.title = <<>>
                   THEN <<"U", "n", "t", "i", "t", "l", "e", "d">>
                   ELSE post.title,
         content |-> Strip(chunk.content),
         chunk_index |-> IF chunk.chunk_index = 0 THEN i ELSE chunk.chunk_index,
         start_char |-> chunk.start_char,
         end_char |-> IF chunk.end_char = 0 THEN Len(chunk.content)
                      ELSE chunk.end_char,
         word_count |-> IF chunk.word_count = 0 THEN Len(Split(chunk.content))
                        ELSE chunk.word_count,
         section_title |-> IF chunk.section_title = <<>> THEN <<>>
                           ELSE chunk.section_title,
         vector |-> embedding.vector,
         \* the declared dimension gives way to the vector's own length
         vector_dim |-> IF Len(embedding.vector) # vector_dim
                        THEN Len(embedding.vector) ELSE vector_dim,
         model_name |-> IF embedding.model_name = "" THEN "unknown"
                        ELSE embedding.model_name]

\* whether _store_embeddings keeps pair i of the batch
ValidPair(chunk, embedding) ==
    ~IsBlank(chunk.content) /\ embedding.vector # <<>>

\* data_to_insert of _store_embeddings, from pair i (1-based) on
RECURSIVE DataToInsert(_, _, _, _)
DataToInsert(post, chunks, embedding_vectors, i) ==
    IF i > Len(chunks) \/ i > Len(embedding_vectors) THEN <<>>
    ELSE IF ValidPair(chunks[i], embedding_vectors[i])
         THEN <<StoreRecord(post, chunks[i], embedding_vectors[i], i - 1)>>
              \o DataToInsert(post, chunks, embedding_vectors, i + 1)
         ELSE DataToInsert(post, chunks, embedding_vectors, i + 1)

\* IndexingPipeline._store_embeddings; added is what reached the table
store_embeddings(st, ct, post, chunks, embedding_vectors, fault) ==
    IF ct = None THEN [raised |-> FALSE, store |-> st, added |-> <<>>]
    ELSE IF chunks = <<>> \/ embedding_vectors = <<>>
         THEN [raised |-> FALSE, store |-> st, added |-> <<>>]
    ELSE IF Len(chunks) # Len(embedding_vectors)
         THEN [raised |-> FALSE, store |-> st, added |-> <<>>]
    ELSE LET data_to_insert == DataToInsert(post, chunks, embedding_vectors, 1)
             add == TableAdd(st, data_to_insert, fault)
         IN  IF data_to_insert = <<>>
             THEN [raised |-> FALSE, store |-> st, added |-> <<>>]
             ELSE IF add.raised
                  THEN [raised |-> TRUE, store |-> st, added |-> <<>>]
                  ELSE [raised |-> FALSE, store |-> add.store,
                        added |-> data_to_insert]

(***************************** indexing results ****************************)

\* IndexingResult(operation_id, started_at): the defaults of document.py;
\* completed_at is 0 while it is None
NewResult(now) ==
    [status |-> "running", started_at |-> now, completed_at |-> 0,
     posts_processed |-> 0, posts_updated |-> 0, posts_skipped |-> 0,
     chunks_created |-> 0, embeddings_generated |-> 0,
     errors |-> <<>>, warnings |-> <<>>]

\* IndexingPipeline._finish_indexing_operation, line 281 after its right
\* side: the time now was read before, and completed_at is assigned to
\* whatever current_result refers to when it is read
finish_stamp(res, cur, now) ==
    IF cur # 0 THEN [res EXCEPT ![cur].completed_at = now] ELSE res

\* an assignment of the status to every result the pipeline made
FinishEveryStatus(res, cur, status) ==
    [i \in 1..Len(res) |-> [res[i] EXCEPT !.status = status]]

\* IndexingPipeline._finish_indexing_operation, line 282: the assignment
\* of the status to whatever current_result refers to when it is read
\* again; current_result is never set back to None
finish_status(res, cur, status) ==
    IF cur # 0 THEN [res EXCEPT ![cur].status = status] ELSE res

Active(c) == c \in 1..Len(calls) /\ calls[c].pc # "done"

NoActiveCall == \A c \in 1..Len(calls) : calls[c].pc = "done"

\* a loop body whose except clause records nothing and counts the document
\* as processed
ProcessPostUnrecorded(st, ct, e, m, post, r, fault) ==
    LET chunks == PostChunks(post).value
        ev == create_embedding_vectors(e.config, e.cache, m, chunks, fault)
        stored == store_embeddings(st, ct, post, chunks, ev.value, fault)
        storing == ev.value # <<>> /\ ct # None
        raises == \/ fault = "chunk" \/ PostChunks(post).raised
                  \/ chunks # <<>> /\ ev.raised
                  \/ chunks # <<>> /\ storing /\ stored.raised
    IN  IF raises
        THEN [raised |-> TRUE, store |-> st, cache |-> ev.cache,
              result |-> [r EXCEPT !.posts_processed = @ + 1]]
        ELSE [raised |-> FALSE,
              store |-> IF storing THEN stored.store ELSE st,
              cache |-> ev.cache,
              result |-> [r EXCEPT
                  !.chunks_created = @ + Len(chunks),
                  !.embeddings_generated = @ + Len(ev.value),
                  !.posts_processed = @ + 1]]

\* the per-document loop body of index_all_content after create_chunks
\* ended in made; the fault "chunk" is an exception of create_chunks that
\* the text did not cause
ProcessChunks(st, ct, e, m, post, made, r, fault) ==
    LET chunks == made.value
        ev == create_embedding_vectors(e.config, e.cache, m, chunks, fault)
        stored == store_embeddings(st, ct, post, chunks, ev.value, fault)
        storing == ev.value # <<>> /\ ct # None
    IN  IF fault = "chunk" \/ made.raised
        THEN [raised |-> TRUE, store |-> st, cache |-> e.cache,
              result |-> [r EXCEPT !.posts_skipped = @ + 1,
                                   !.errors = Append(@, "chunking failed")]]
        ELSE IF chunks = <<>>
             THEN [raised |-> FALSE, store |-> st, cache |-> e.cache,
                   result |-> [r EXCEPT !.posts_processed = @ + 1]]
        ELSE IF ev.raised
             THEN [raised |-> TRUE, store |-> st, cache |-> ev.cache,
                   result |-> [r EXCEPT !.posts_skipped = @ + 1,
                                        !.errors = Append(@, ev.error)]]
        ELSE IF storing /\ stored.raised
             THEN [raised |-> TRUE, store |-> st, cache |-> ev.cache,
                   result |-> [r EXCEPT !.posts_skipped = @ + 1,
                                        !.errors = Append(@, "store failed")]]
        ELSE [raised |-> FALSE,
              store |-> IF storing THEN stored.store ELSE st,
              cache |-> ev.cache,
              result |-> [r EXCEPT
                  !.chunks_created = @ + Len(chunks),
                  !.embeddings_generated = @ + Len(ev.value),
                  !.posts_processed = @ + 1]]

\* one pass of the per-document loop body of index_all_content on result
\* r; raised tells whether the except clause of the loop ran
ProcessPost(st, ct, e, m, post, r, fault) ==
    ProcessChunks(st, ct, e, m, post, PostChunks(post), r, fault)

(***************************** binary floats *******************************)

\* The scores of search and keyword_search are Python floats.  A float that is not negative is
\* kept exactly: as the integer value * 2^72, written in NumLimbs limbs of
\* LimbBits bits, the least significant limb first, so that the unit is
\* the limb NumLimbs - 1.  Every float of at least 2^-19 and below 2^24 has
\* such a form, and the operations below round as IEEE 754 binary64 does:
\* to Mantissa significant bits, to the nearest, ties to the even
\* neighbour.
LimbBits == 12

LimbBase == 2^LimbBits

NumLimbs == 8

Mantissa == 53

\* x with its carries passed on, from limb i on with carry c coming in
RECURSIVE Carry(_, _, _)
Carry(x, i, c) ==
    IF i > NumLimbs THEN <<>>
    ELSE LET limb == x[i] + c
         IN  <<limb % LimbBase>> \o Carry(x, i + 1, limb \div LimbBase)

\* the limbs x as a tuple
Limbs(x) == Carry(x, 1, 0)

\* float(k) for an integer 0 <= k < 2^24
FloatOf(k) ==
    Limbs([i \in 1..NumLimbs |-> IF i = NumLimbs - 1 THEN k ELSE 0])

\* the exact sum x + y
ExactSum(x, y) == Limbs([i \in 1..NumLimbs |-> x[i] + y[i]])

\* the exact product x * k for an integer 0 <= k < 2^18
ExactTimes(x, k) == Limbs([i \in 1..NumLimbs |-> x[i] * k])

\* the number of bits of x: the place of its highest 1, from 1; 0 for zero
BitLength(x) ==
    IF \A i \in 1..NumLimbs : x[i] = 0 THEN 0
    ELSE LET top == CHOOSE i \in 1..NumLimbs :
                        x[i] # 0 /\ \A j \in (i + 1)..NumLimbs : x[j] = 0
             b == CHOOSE n \in 1..LimbBits :
                      x[top] < 2^n /\ x[top] >= 2^(n - 1)
         IN  LimbBits * (top - 1) + b

\* bit j of x, from 0
Bit(x, j) == (x[(j \div LimbBits) + 1] \div 2^(j % LimbBits)) % 2

\* x with the bits below s cleared
Truncate(x, s) ==
    Limbs([i \in 1..NumLimbs |->
        IF LimbBits * i <= s THEN 0
        ELSE IF LimbBits * (i - 1) >= s THEN x[i]
        ELSE x[i] - (x[i] % 2^(s - LimbBits * (i - 1)))])

\* 2^s
PowerOfTwo(s) ==
    Limbs([i \in 1..NumLimbs |->
        IF i = (s \div LimbBits) + 1 THEN 2^(s % LimbBits) ELSE 0])

\* the float nearest to x + e, where e is 0, or a positive amount below one
\* unit of x when sticky
RoundToFloat(x, sticky) ==
    LET s == BitLength(x) - Mantissa
        low == Truncate(x, s)
        half == Bit(x, s - 1) = 1
        above == sticky \/ Truncate(x, s - 1) # x
        odd == Bit(x, s) = 1
    IN  IF s <= 0 THEN x
        ELSE IF half /\ (above \/ odd) THEN ExactSum(low, PowerOfTwo(s))
        ELSE low

\* the exact difference x - y, for x >= y
ExactDifference(x, y) == Limbs([i \in 1..NumLimbs |-> x[i] - y[i]])

\* x + y as floats
FloatAdd(x, y) == RoundToFloat(ExactSum(x, y), FALSE)

\* k * x for an integer k and a float x
FloatTimes(k, x) == RoundToFloat(ExactTimes(x, k), FALSE)

\* the long division of x by an integer 0 < n < 2^19, from limb i down with
\* remainder r coming in: the limbs of the quotient from limb i down, the
\* most significant first, and then the remainder
RECURSIVE LongDivision(_, _, _, _)
LongDivision(x, n, i, r) ==
    IF i = 0 THEN <<r>>
    ELSE <<(r * LimbBase + x[i]) \div n>>
         \o LongDivision(x, n, i - 1, (r * LimbBase + x[i]) % n)

\* k / n as a float, for integers 0 <= k < 2^24 and 0 < n < 2^19
FloatDivide(k, n) ==
    LET d == LongDivision(FloatOf(k), n, NumLimbs, 0)
    IN  RoundToFloat(Limbs([i \in 1..NumLimbs |-> d[NumLimbs + 1 - i]]),
                     d[NumLimbs + 1] # 0)

\* x / n for a float x and the float of an integer 0 < n < 2^19
FloatOver(x, n) ==
    LET d == LongDivision(x, n, NumLimbs, 0)
    IN  RoundToFloat(Limbs([i \in 1..NumLimbs |-> d[NumLimbs + 1 - i]]),
                     d[NumLimbs + 1] # 0)

\* x * 0.5 for a float x of at least 2^-18: exact
FloatHalf(x) ==
    Limbs([i \in 1..NumLimbs |->
        (x[i] \div 2)
        + (IF i < NumLimbs THEN (x[i + 1] % 2) * (LimbBase \div 2) ELSE 0)])

\* x < y
FloatLess(x, y) ==
    \E i \in 1..NumLimbs :
        x[i] < y[i] /\ \A j \in (i + 1)..NumLimbs : x[j] = y[j]

\* x - y as floats, for x >= y
FloatMinus(x, y) == RoundToFloat(ExactDifference(x, y), FALSE)

\* the float literals of search and keyword_search: 0.0, 0.1, 0.3, 0.5, 1.0
FloatZero == FloatOf(0)

FloatTenth == FloatDivide(1, 10)

FloatThreeTenths == FloatDivide(3, 10)

FloatOneHalf == FloatDivide(1, 2)

FloatOne == FloatOf(1)

\* min(x, y) of Python: y only when y < x
FloatMin(x, y) == IF FloatLess(y, x) THEN y ELSE x

(***************************** search **************************************)

\* squared Euclidean distance, times 25
RECURSIVE SqDist(_, _)
SqDist(a, b) ==
    IF a = <<>> \/ b = <<>> THEN 0
    ELSE (Head(a) - Head(b)) * (Head(a) - Head(b)) + SqDist(Tail(a), Tail(b))

\* The rankings the store may give the rows at the places S: by ascending
\* distance to q, cut after n rows.  The order of rows at equal distance is
\* the store's own and is fixed by nothing in the pipeline: every order is
\* a ranking.
RECURSIVE Rankings(_, _, _, _)
Rankings(rows, S, q, n) ==
    IF S = {} \/ n = 0 THEN {<<>>}
    ELSE LET nearest ==
                 {i \in S : \A j \in S : SqDist(rows[i].vector, q)
                                             <= SqDist(rows[j].vector, q)}
         IN  UNION {{<<rows[i]>> \o r :
                        r \in Rankings(rows, S \ {i}, q, n - 1)} :
                    i \in nearest}

Take(s, n) == SubSeq(s, 1, Min(n, Len(s)))

\* table.search(q).limit(limit).where("category = ...").to_list(): the
\* answers the store may give.  The store refuses a query vector that does
\* not fit the vector column.  where() is called without `prefilter`, and
\* the default of that argument differs between releases of the store, none
\* of which the repository pins: the store either ranks the rows the filter
\* keeps and cuts to the limit, or cuts the ranking of all rows to the limit
\* and filters what is left.
TableSearch(st, q, limit, category_filter, fault) ==
    IF fault = "store" \/ ~st.exists \/ Len(q) # st.width
    THEN {[raised |-> TRUE, value |-> <<>>]}
    ELSE IF category_filter # None /\ category_filter # ""
         THEN {[raised |-> FALSE, value |-> r] :
                  r \in Rankings(st.rows,
                                 {i \in 1..Len(st.rows) :
                                     st.rows[i].category = category_filter},
                                 q, limit)}
              \cup
              {[raised |-> FALSE,
                value |-> SelectSeq(r, LAMBDA row :
                                           row.category = category_filter)] :
                  r \in Rankings(st.rows, 1..Len(st.rows), q, limit)}
         ELSE {[raised |-> FALSE, value |-> r] :
                  r \in Rankings(st.rows, 1..Len(st.rows), q, limit)}

\* max_distance of IndexingPipeline.search
max_distance == 4

\* result['_distance'] as a float, for 25 * distance
Distance(d25) == FloatDivide(d25, 25)

\* a score without the cap at zero: how far distance / max_distance is
\* from 1.0, also beyond it
UncappedScore(d25) ==
    IF FloatLess(FloatOne, FloatOver(Distance(d25), max_distance))
    THEN FloatMinus(FloatOver(Distance(d25), max_distance), FloatOne)
    ELSE FloatMinus(FloatOne, FloatOver(Distance(d25), max_distance))

\* 1.0 - x for floats, when it is not negative
OneMinus(x) == FloatMinus(FloatOne, x)

\* max(0.0, 1.0 - x) for a float x
CappedAtZero(x) == IF FloatLess(FloatOne, x) THEN FloatZero ELSE OneMinus(x)

\* max(0.0, 1.0 - (distance / max_distance)), for 25 * distance
SimilarityScore(d25) == CappedAtZero(FloatOver(Distance(d25), max_distance))

\* one entry of formatted_results
FormatResult(row, q) ==
    [title |-> row.title, category |-> row.category, slug |-> row.post_slug,
     content |-> row.content,
     excerpt |-> Take(row.content, 200) \o <<".", ".", ".">>,
     score |-> SimilarityScore(SqDist(row.vector, q)),
     distance |-> SqDist(row.vector, q),
     publish_date |-> "", tags |-> <<>>, url |-> ""]

\* similarity_threshold as a float, for 100 * similarity_threshold
Threshold(threshold) == FloatDivide(threshold, 100)

\* a threshold that a score has to exceed
AboveThreshold(r, threshold) == FloatLess(Threshold(threshold), r.score)

\* `if similarity_score >= similarity_threshold`
MeetsThreshold(r, threshold) == ~FloatLess(r.score, Threshold(threshold))

\* the answers the store may give to the query of search; the empty answer
\* stands for none when search does not get as far as the store
SearchAnswers(st, ct, e, m, query, limit, category_filter, fault) ==
    IF \/ ct = None
       \/ generate_embedding(e.config, e.cache, m, query, fault).raised
    THEN {[raised |-> FALSE, value |-> <<>>]}
    ELSE TableSearch(st,
                     generate_embedding(e.config, e.cache, m, query,
                                        fault).value,
                     limit, category_filter, fault)

\* the embedder's cache after IndexingPipeline.search
SearchCache(ct, e, m, query, fault) ==
    IF ct = None THEN e.cache
    ELSE generate_embedding(e.config, e.cache, m, query, fault).cache

\* IndexingPipeline.search without its exception handler; found is what
\* the store answered
search_body(st, ct, e, m, query, limit, category_filter, threshold, fault, found) ==
    IF ct = None THEN [raised |-> FALSE, value |-> <<>>, store_calls |-> 0]
    ELSE LET qe == generate_embedding(e.config, e.cache, m, query, fault)
             formatted == [i \in 1..Len(found.value) |->
                              FormatResult(found.value[i], qe.value)]
         IN  IF qe.raised
             THEN [raised |-> TRUE, value |-> <<>>, store_calls |-> 0]
             ELSE IF found.raised
                  THEN [raised |-> TRUE, value |-> <<>>, store_calls |-> 1]
                  ELSE [raised |-> FALSE,
                        value |-> SelectSeq(formatted,
                                      LAMBDA r : MeetsThreshold(r, threshold)),
                        store_calls |-> 1]

\* a handler that lets the exception through
Reraise(b) == b

\* `except Exception: return []` of search and keyword_search
ReturnEmptyOnError(b) ==
    IF b.raised THEN [b EXCEPT !.raised = FALSE, !.value = <<>>] ELSE b

\* IndexingPipeline.search; threshold is 100 * similarity_threshold
search(st, ct, e, m, query, limit, category_filter, threshold, fault, found) ==
    ReturnEmptyOnError(
        search_body(st, ct, e, m, query, limit, category_filter, threshold,
                    fault, found))

(***************************** keyword search ******************************)

\* query_terms of keyword_search
QueryTerms(query, case_sensitive) ==
    IF case_sensitive THEN Split(query) ELSE Split(Lower(query))

\* SQL `s LIKE pattern`: % stands for any run of characters, _ for any
\* single one, every other character for itself
RECURSIVE Like(_, _)
Like(s, pattern) ==
    IF pattern = <<>> THEN s = <<>>
    ELSE IF Head(pattern) = "%"
         THEN Like(s, Tail(pattern)) \/ (s # <<>> /\ Like(Tail(s), pattern))
         ELSE /\ s # <<>>
              /\ Head(pattern) = "_" \/ Head(pattern) = Head(s)
              /\ Like(Tail(s), Tail(pattern))

\* a condition that looks for the term itself
ContainsAny(row, terms, case_sensitive) ==
    \E k \in 1..Len(terms) :
        IF case_sensitive THEN Find(row.content, terms[k]) # -1
        ELSE Find(Lower(row.content), Lower(terms[k])) # -1

\* the row satisfies the OR of the per-term conditions
\* content LIKE '%term%' / LOWER(content) LIKE '%term.lower()%'
LikeAny(row, terms, case_sensitive) ==
    \E k \in 1..Len(terms) :
        IF case_sensitive
        THEN Like(row.content, <<"%">> \o terms[k] \o <<"%">>)
        ELSE Like(Lower(row.content), <<"%">> \o Lower(terms[k]) \o <<"%">>)

\* table.search().where(where_clause).limit(limit * 2).to_list(); the
\* store refuses the empty predicate an empty query gives
TableWhereTerms(st, terms, case_sensitive, category_filter, limit, fault) ==
    IF fault = "store" \/ ~st.exists \/ terms = <<>>
    THEN [raised |-> TRUE, value |-> <<>>]
    ELSE [raised |-> FALSE,
          value |-> Take(
              SelectSeq(st.rows,
                  LAMBDA r : /\ LikeAny(r, terms, case_sensitive)
                             /\ (category_filter # None /\ category_filter # "")
                                    => r.category = category_filter),
              limit * 2)]

\* `if first_pos < 100: score += 0.3`
EarlyBonus(score, first_pos) ==
    IF first_pos < 100 THEN FloatAdd(score, FloatThreeTenths) ELSE score

\* `if content_matches > 0: score += content_matches * 0.1` and the bonus
\* for an early appearance
ContentScore(score, content_matches, first_pos) ==
    IF content_matches > 0
    THEN EarlyBonus(FloatAdd(score, FloatTimes(content_matches, FloatTenth)),
                    first_pos)
    ELSE score

\* `if title_matches > 0: score += title_matches * 0.5`
TitleScore(score, title_matches) ==
    IF title_matches > 0
    THEN FloatAdd(score, FloatTimes(title_matches, FloatOneHalf))
    ELSE score

\* one pass of the loop over the query terms on the state acc, for a term
\* that occurs content_matches times in the content, first at first_pos,
\* and title_matches times in the title; n is len(query_terms)
TermPass(acc, content_matches, title_matches, first_pos, n) ==
    [term_matches |-> acc.term_matches
         + (IF content_matches > 0 THEN 1 ELSE 0)
         + (IF title_matches > 0 THEN 1 ELSE 0),
     exact |-> acc.exact
         + (IF content_matches > 0
            THEN n * content_matches
                 + (IF first_pos < 100 THEN 3 * n ELSE 0)
            ELSE 0)
         + (IF title_matches > 0 THEN 5 * n * title_matches ELSE 0),
     score |-> TitleScore(ContentScore(acc.score, content_matches, first_pos),
                          title_matches)]

\* score and term_matches of one candidate after the first k passes of the
\* loop over the query terms: score is the float the code holds, exact the
\* same sum in exact arithmetic, in units of 1 / (10 * len(query_terms))
RECURSIVE TermScores(_, _, _, _)
TermScores(content, title, terms, k) ==
    IF k = 0 THEN [score |-> FloatZero, exact |-> 0, term_matches |-> 0]
    ELSE TermPass(TermScores(content, title, terms, k - 1),
                  Count(content, terms[k]), Count(title, terms[k]),
                  Find(content, terms[k]), Len(terms))

\* `if len(query_terms) > 1: score += (term_matches / len(query_terms)) *
\* 0.5` on the state t the loop ended in; n is len(query_terms)
CoverageBonus(t, n) ==
    [term_matches |-> t.term_matches,
     exact |-> t.exact + (IF n > 1 THEN 5 * t.term_matches ELSE 0),
     score |-> IF n > 1
               THEN FloatAdd(t.score,
                             FloatHalf(FloatDivide(t.term_matches, n)))
               ELSE t.score]

\* the score of a candidate before the cap, and its term_matches
KeywordScore(row, terms, case_sensitive) ==
    CoverageBonus(
        TermScores(IF case_sensitive THEN row.content ELSE Lower(row.content),
                   IF case_sensitive THEN row.title ELSE Lower(row.title),
                   IF case_sensitive THEN terms
                   ELSE [k \in 1..Len(terms) |-> Lower(terms[k])],
                   Len(terms)),
        Len(terms))

\* x put into a list sorted by descending score, after its equals
RECURSIVE InsertDesc(_, _)
InsertDesc(sorted, x) ==
    IF sorted = <<>> THEN <<x>>
    ELSE IF ~FloatLess(Head(sorted).score, x.score)
         THEN <<Head(sorted)>> \o InsertDesc(Tail(sorted), x)
         ELSE <<x>> \o sorted

\* list.sort(key=score, reverse=True)
RECURSIVE BestFirst(_)
BestFirst(rs) ==
    IF rs = <<>> THEN <<>>
    ELSE InsertDesc(BestFirst(SubSeq(rs, 1, Len(rs) - 1)), rs[Len(rs)])

\* the entry of scored_results for the row with the score k; den is
\* 10 * len(query_terms)
ScoredResult(row, k, den) ==
    [title |-> row.title, category |-> row.category,
     slug |-> row.post_slug, content |-> row.content,
     excerpt |-> Take(row.content, 200) \o <<".", ".", ".">>,
     uncapped |-> k.score,
     score |-> FloatMin(k.score, FloatOne),
     raw |-> k.exact,
     exact |-> Min(k.exact, den), den |-> den,
     term_matches |-> k.term_matches,
     publish_date |-> "", tags |-> <<>>, url |-> ""]

\* IndexingPipeline.keyword_search without its exception handler.  score
\* is the float of the result; exact over den is the value the same sum
\* and cap have in exact arithmetic, den being 10 * len(query_terms), and
\* raw is exact before the cap.
keyword_search_body(st, ct, query, limit, category_filter, case_sensitive, fault) ==
    IF ct = None THEN [raised |-> FALSE, value |-> <<>>, store_calls |-> 0]
    ELSE LET query_terms == QueryTerms(query, case_sensitive)
             found == TableWhereTerms(st, query_terms, case_sensitive,
                                      category_filter, limit, fault)
             den == 10 * Len(query_terms)
             scored == [i \in 1..Len(found.value) |->
                 ScoredResult(found.value[i],
                              KeywordScore(found.value[i], query_terms,
                                           case_sensitive),
                              den)]
         IN  IF found.raised
             THEN [raised |-> TRUE, value |-> <<>>, store_calls |-> 1]
             ELSE [raised |-> FALSE,
                   value |-> Take(BestFirst(SelectSeq(scored,
                                      LAMBDA r : FloatLess(FloatZero,
                                                           r.uncapped))),
                                  limit),
                   store_calls |-> 1]

\* IndexingPipeline.keyword_search
keyword_search(st, ct, query, limit, category_filter, case_sensitive, fault) ==
    ReturnEmptyOnError(
        keyword_search_body(st, ct, query, limit, category_filter,
                            case_sensitive, fault))

\* the string 'keyword'
Keyword == <<"k", "e", "y", "w", "o", "r", "d">>

\* the string 'semantic'
Semantic == <<"s", "e", "m", "a", "n", "t", "i", "c">>

\* IndexingPipeline.search_unified; mode is a string in any casing
search_unified(st, ct, e, m, query, mode, limit, category_filter, threshold, case_sensitive, fault, found) ==
    IF Lower(mode) = Keyword
    THEN keyword_search(st, ct, query, limit, category_filter, case_sensitive,
                        fault)
    ELSE search(st, ct, e, m, query, limit, category_filter, threshold,
                fault, found)

\* the answers the store may give to the vector query of search_unified
UnifiedAnswers(st, ct, e, m, query, mode, limit, category_filter, fault) ==
    IF Lower(mode) = Keyword THEN {[raised |-> FALSE, value |-> <<>>]}
    ELSE SearchAnswers(st, ct, e, m, query, limit, category_filter, fault)

\* the embedder's cache after IndexingPipeline.search_unified
UnifiedCache(ct, e, m, query, mode, fault) ==
    IF Lower(mode) = Keyword THEN e.cache
    ELSE SearchCache(ct, e, m, query, fault)

(***************************** health check ********************************)

\* SearchService.health_check on the pipeline; unavailable says that
\* _get_pipeline raised.  A key the dict lacks is left out of the record.
health_check(st, d, ct, e, m, fault, unavailable, found) ==
    LET test_results ==
            search_unified(st, ct, e, m, <<"t", "e", "s", "t">>, Semantic, 1,
                           None, 50, FALSE, fault, found)
    IN  IF unavailable \/ test_results.raised
        THEN [status |-> "unhealthy", pipeline_available |-> FALSE]
        ELSE [status |-> "healthy", pipeline_available |-> TRUE,
              database_available |-> d # None,
              test_search_successful |-> TRUE,
              sample_results_count |-> Len(test_results.value)]

(***************************** stats and clear *****************************)

\* len(set(chunk.get('post_slug') for chunk in chunks))
UniquePosts(rows) == Cardinality({rows[i].post_slug : i \in 1..Len(rows)})

\* IndexingPipeline.get_indexing_stats.  Fault "count" makes every
\* count_rows raise, fault "count_later" every count_rows but the first,
\* fault "where" the per-category query.  `if self.content_table:` asks
\* the table for its length, that is count_rows, before the try block is
\* entered: an exception there leaves get_indexing_stats (raised, and no
\* dict is returned).  A key the dict lacks is a category outside the
\* domain of categories, has_total_chunks FALSE, error "".
get_indexing_stats(st, d, ct, m, fault) ==
    LET blank == [raised |-> FALSE,
                  database_available |-> d # None,
                  categories |-> [c \in {} |-> 0],
                  has_total_chunks |-> FALSE, total_chunks |-> 0,
                  error |-> "",
                  embedding_info |->
                      [name |-> m,
                       embedding_dimension |-> EmbeddingDimension(m)]]
        perCategory(c) ==
            IF fault = "where" THEN [posts |-> 0, chunks |-> 0]
            ELSE LET chunks == TableWhereCategory(st, c)
                 IN  [posts |-> UniquePosts(chunks), chunks |-> Len(chunks)]
    IN  IF ct = None THEN blank
        ELSE IF fault = "count" \/ ~st.exists
             THEN [blank EXCEPT !.raised = TRUE]
        ELSE IF ~TableTruthy(st, ct) THEN blank
        ELSE IF fault = "count_later"
             THEN [blank EXCEPT !.error = "Error getting database stats"]
             ELSE [blank EXCEPT
                      !.has_total_chunks = TRUE,
                      !.total_chunks = TableCountRows(st),
                      !.categories =
                          [c \in {"blog", "engineering"} |-> perCategory(c)]]

\* a clear_index that deletes every row whatever the category
ClearWholeTable(st, ct, category, fault) ==
    IF ct = None THEN [raised |-> FALSE, store |-> st]
    ELSE IF fault = "count" \/ ~st.exists
         THEN [raised |-> TRUE, store |-> st]
    ELSE IF ~TableTruthy(st, ct) \/ fault = "store"
         THEN [raised |-> FALSE, store |-> st]
    ELSE [raised |-> FALSE, store |-> TableDeleteAll(st)]

\* IndexingPipeline.clear_index: whether it raised, and the store
\* afterwards.  `if not self.content_table:` (line 705) asks the table for
\* its length, that is count_rows, before the try block is entered: an
\* exception there (fault "count", or a table dropped under the handle)
\* leaves clear_index and nothing is deleted.  A failure of the delete
\* (fault "store") is caught.
clear_index(st, ct, category, fault) ==
    IF ct = None THEN [raised |-> FALSE, store |-> st]
    ELSE IF fault = "count" \/ ~st.exists
         THEN [raised |-> TRUE, store |-> st]
    ELSE IF ~TableTruthy(st, ct) \/ fault = "store"
         THEN [raised |-> FALSE, store |-> st]
    ELSE IF category # None /\ category # ""
         THEN [raised |-> FALSE, store |-> TableDeleteCategory(st, category)]
         ELSE [raised |-> FALSE, store |-> TableDeleteAll(st)]

(***************************** the pipeline ********************************)

NoRet == [op |-> "none"]

\* The configuration the pipeline is constructed with.  Two of its values
\* are not the defaults of config.py: the chunking sizes are scaled to the
\* posts of Corpus (chunk_size 4, chunk_overlap 1, min_chunk_size 1 where
\* the defaults are 1000, 200, 100), and enable_embedding_cache is off
\* (the default is on), so that the pipeline's embedder encodes every text
\* it is given; the cache is on in EmbedSpec and, with CachingEmbedder, in
\* the index runs of IndexSpec.
PipelineEmbedder ==
    [config |-> [enable_embedding_cache |-> FALSE, batch_size |-> 16,
                 max_sequence_length |-> 512],
     cache |-> NoCache, cache_file |-> NoCacheFile]

\* the EmbeddingGenerator with the cache on, as by default
CachingEmbedder ==
    [PipelineEmbedder EXCEPT !.config.enable_embedding_cache = TRUE]

\* TextProcessor(config.chunking) of the pipeline
PipelineTextProcessor ==
    [config |-> [chunk_size |-> 4, chunk_overlap |-> 1,
                 min_chunk_size |-> 1, preserve_sections |-> TRUE,
                 langchain_available |-> TRUE]]

\* the stores the first pipeline may find: one that holds no table yet, and
\* one with the empty table an earlier pipeline with the default model left
InitialStores ==
    {NoTable,
     [NoTable EXCEPT !.exists = TRUE,
                     !.width = EmbeddingDimension(DefaultModel)]}

\* IndexingPipeline(config) over one of the initial stores, with the
\* EmbeddingGenerator e
Constructed(e) ==
    \E f \in FaultScenarios, st \in InitialStores, sized \in BOOLEAN :
        LET p == initialize_database(st, sized, DefaultModel, f)
        IN  /\ store = p.store
            /\ db = p.db
            /\ content_table = p.content_table
            /\ model_name = DefaultModel
            /\ current_result = 0
            /\ results = <<>>
            /\ calls = <<>>
            /\ clock = 1
            /\ constructs = 0
            /\ ret = NoRet
            /\ embedder = e
            /\ text_processor = PipelineTextProcessor

Init == Constructed(PipelineEmbedder)

\* the same with the embedding cache on, as config.py:146 has it by default
IndexInit ==
    Constructed(CachingEmbedder)

\* a later IndexingPipeline(config), configured with model m, over the
\* store the earlier pipelines left, through the store library installed
\* then
Construct(m, f, sized) ==
    /\ NoActiveCall
    /\ constructs < MaxConstructs
    /\ LET p == initialize_database(store, sized, m, f)
       IN  /\ store' = p.store
           /\ db' = p.db
           /\ content_table' = p.content_table
    /\ model_name' = m
    /\ current_result' = 0
    /\ constructs' = constructs + 1
    /\ ret' = NoRet
    /\ embedder' = [embedder EXCEPT !.cache = NoCache]
    /\ UNCHANGED <<text_processor, results, calls, clock>>

\* index_all_content, line 334: _start_indexing_operation up to line 274,
\* where the result is built with the time read there; it is not yet in
\* self.current_result
IndexAllEnter(category_filter, force_reindex) ==
    /\ Len(calls) < MaxCalls
    /\ results' = Append(results, NewResult(clock))
    /\ calls' = Append(calls,
           [op |-> "index_all", pc |-> "publish",
            category_filter |-> category_filter,
            force_reindex |-> force_reindex, posts |-> <<>>, i |-> 1,
            final |-> "", now |-> 0])
    /\ clock' = clock + 1
    /\ ret' = NoRet
    /\ UNCHANGED <<text_processor, embedder, store, db, content_table, model_name, current_result,
                   constructs>>

\* index_all_content called while no other indexing call is running
IndexAllStart(category_filter, force_reindex) ==
    /\ NoActiveCall
    /\ IndexAllEnter(category_filter, force_reindex)

\* _start_indexing_operation of call c, line 275: self.current_result =
\* result, and the return to index_all_content or index_single_post
StartPublish(c) ==
    /\ Active(c)
    /\ calls[c].pc = "publish"
    /\ current_result' = c
    /\ calls' = [calls EXCEPT ![c].pc = IF calls[c].op = "index_all"
                                        THEN "load" ELSE "post"]
    /\ UNCHANGED <<text_processor, embedder, store, db, content_table, model_name, results, clock,
                   constructs, ret>>

\* index_all_content, lines 336-353: load, filter, the empty corpus; an
\* exception of the loader escapes to the outer handler (lines 397-400).
\* The call goes on to _finish_indexing_operation with the status final.
IndexAllLoad(c, loadRaises) ==
    /\ Active(c)
    /\ calls[c].op = "index_all"
    /\ calls[c].pc = "load"
    /\ LET filter == calls[c].category_filter
           posts == IF filter # None /\ filter # ""
                    THEN SelectSeq(load_all_posts,
                                   LAMBDA p : p.category = filter)
                    ELSE load_all_posts
       IN  IF loadRaises
           THEN /\ results' = [results EXCEPT ![c].errors =
                                  Append(@, "Fatal error during indexing")]
                /\ calls' = [calls EXCEPT ![c].pc = "now",
                                          ![c].final = "failed"]
           ELSE IF posts = <<>>
                THEN /\ results' = [results EXCEPT ![c].warnings =
                                       Append(@, "No posts found to index")]
                     /\ calls' = [calls EXCEPT ![c].pc = "now",
                                               ![c].final = "completed"]
                ELSE /\ results' = results
                     /\ calls' = [calls EXCEPT ![c].pc = "loop",
                                               ![c].posts = posts]
    /\ UNCHANGED <<text_processor, embedder, store, db, content_table, model_name, current_result,
                   clock, constructs, ret>>

\* index_all_content, lines 356-384: one iteration of the loop
IndexAllPost(c, fault) ==
    /\ Active(c)
    /\ calls[c].op = "index_all"
    /\ calls[c].pc = "loop"
    /\ LET post == calls[c].posts[calls[c].i]
           done == ProcessPost(store, content_table, embedder, model_name,
                               post, results[c], fault)
       IN  /\ store' = done.store
           /\ embedder' = [embedder EXCEPT !.cache = done.cache]
           /\ results' = [results EXCEPT ![c] = done.result]
    /\ calls' = [calls EXCEPT
           ![c].i = @ + 1,
           ![c].pc = IF calls[c].i + 1 > Len(calls[c].posts)
                     THEN "finish" ELSE "loop"]
    /\ UNCHANGED <<text_processor, db, content_table, model_name, current_result, clock,
                   constructs, ret>>

\* index_all_content, lines 386-394: posts_updated, and on to
\* _finish_indexing_operation()
IndexAllFinish(c) ==
    /\ Active(c)
    /\ calls[c].op = "index_all"
    /\ calls[c].pc = "finish"
    /\ results' = [results EXCEPT ![c].posts_updated =
                      results[c].posts_processed - results[c].posts_skipped]
    /\ calls' = [calls EXCEPT ![c].pc = "now", ![c].final = "completed"]
    /\ UNCHANGED <<text_processor, embedder, store, db, content_table, model_name, current_result,
                   clock, constructs, ret>>

\* _finish_indexing_operation(final) of call c, line 280 and the right
\* side of line 281: the test of self.current_result, which is never None
\* once a call has published its result, and datetime.utcnow()
FinishNow(c) ==
    /\ Active(c)
    /\ calls[c].pc = "now"
    /\ calls' = [calls EXCEPT
           ![c].pc = IF current_result # 0 THEN "stamp" ELSE "done",
           ![c].now = IF current_result # 0 THEN clock ELSE @]
    /\ clock' = clock + 1
    /\ UNCHANGED <<text_processor, embedder, store, db, content_table, model_name, current_result,
                   results, constructs, ret>>

\* _finish_indexing_operation(final) of call c, the assignment of line
\* 281: self.current_result is read after the time
FinishStamp(c) ==
    /\ Active(c)
    /\ calls[c].pc = "stamp"
    /\ results' = finish_stamp(results, current_result, calls[c].now)
    /\ calls' = [calls EXCEPT ![c].pc = "status"]
    /\ UNCHANGED <<text_processor, embedder, store, db, content_table, model_name, current_result,
                   clock, constructs, ret>>

\* _finish_indexing_operation(final) of call c, line 282, and the return
\* of the call
FinishStatus(c) ==
    /\ Active(c)
    /\ calls[c].pc = "status"
    /\ results' = finish_status(results, current_result, calls[c].final)
    /\ calls' = [calls EXCEPT ![c].pc = "done"]
    /\ UNCHANGED <<text_processor, embedder, store, db, content_table, model_name, current_result,
                   clock, constructs, ret>>

\* index_single_post, line 407: _start_indexing_operation up to line 274
IndexSingleEnter(category, slug) ==
    /\ Len(calls) < MaxCalls
    /\ results' = Append(results, NewResult(clock))
    /\ calls' = Append(calls,
           [op |-> "index_single", pc |-> "publish", category |-> category,
            slug |-> slug, final |-> "", now |-> 0])
    /\ clock' = clock + 1
    /\ ret' = NoRet
    /\ UNCHANGED <<text_processor, embedder, store, db, content_table, model_name, current_result,
                   constructs>>

\* index_single_post called while no other indexing call is running
IndexSingleStart(category, slug) ==
    /\ NoActiveCall
    /\ IndexSingleEnter(category, slug)

\* index_single_post, lines 420-443, for a post that was found, after
\* create_chunks ended in made
IndexFoundPost(e, m, made, r, fault) ==
    LET chunks == made.value
        ev == create_embedding_vectors(e.config, e.cache, m, chunks, fault)
    IN  IF fault = "chunk" \/ made.raised
        THEN [status |-> "failed", cache |-> e.cache,
              result |-> [r EXCEPT !.errors =
                             Append(@, "Error indexing post")]]
        ELSE IF chunks # <<>> /\ ev.raised
        THEN [status |-> "failed", cache |-> ev.cache,
              result |-> [r EXCEPT !.errors =
                             Append(@, "Error indexing post")]]
        ELSE [status |-> "completed", cache |-> ev.cache,
              result |-> [r EXCEPT
                  !.chunks_created =
                      IF chunks # <<>> THEN Len(chunks) ELSE @,
                  !.embeddings_generated =
                      IF chunks # <<>> THEN Len(ev.value) ELSE @,
                  !.posts_processed = 1,
                  !.posts_updated = 1]]

\* the body of index_single_post on result r: lines 409-445 but the finish
SinglePost(e, m, category, slug, r, fault) ==
    LET post == get_post_by_slug(category, slug)
    IN  IF post = <<>>
        THEN [status |-> "failed", cache |-> e.cache,
              result |-> [r EXCEPT !.errors = Append(@, "Post not found")]]
        ELSE IndexFoundPost(e, m, PostChunks(post[1]), r, fault)

\* index_single_post, lines 409-443 but the calls of
\* _finish_indexing_operation, which follow
IndexSinglePost(c, fault) ==
    /\ Active(c)
    /\ calls[c].op = "index_single"
    /\ calls[c].pc = "post"
    /\ LET done == SinglePost(embedder, model_name, calls[c].category,
                              calls[c].slug, results[c], fault)
       IN  /\ results' = [results EXCEPT ![c] = done.result]
           /\ embedder' = [embedder EXCEPT !.cache = done.cache]
           /\ calls' = [calls EXCEPT ![c].pc = "now",
                                     ![c].final = done.status]
    /\ UNCHANGED <<text_processor, store, db, content_table, model_name, current_result,
                   clock, constructs, ret>>

\* pipeline.search(query, limit, category_filter, similarity_threshold)
Search(query, limit, category_filter, threshold, fault) ==
    /\ NoActiveCall
    /\ ret = NoRet
    /\ \E found \in SearchAnswers(store, content_table, embedder, model_name,
                                  query, limit, category_filter, fault) :
           ret' = [op |-> "search", query |-> query, limit |-> limit,
                   category_filter |-> category_filter,
                   threshold |-> threshold, fault |-> fault, found |-> found,
                   out |-> search(store, content_table, embedder, model_name,
                                  query, limit, category_filter, threshold,
                                  fault, found)]
    /\ embedder' = [embedder EXCEPT !.cache =
                        SearchCache(content_table, embedder, model_name,
                                    query, fault)]
    /\ UNCHANGED <<text_processor, store, db, content_table, model_name, current_result,
                   results, calls, clock, constructs>>

\* pipeline.keyword_search(query, limit, category_filter, case_sensitive)
KeywordSearch(query, limit, category_filter, case_sensitive, fault) ==
    /\ NoActiveCall
    /\ ret = NoRet
    /\ ret' = [op |-> "keyword_search", query |-> query, limit |-> limit,
               category_filter |-> category_filter,
               case_sensitive |-> case_sensitive, fault |-> fault,
               out |-> keyword_search(store, content_table, query, limit,
                                      category_filter, case_sensitive, fault)]
    /\ UNCHANGED <<text_processor, embedder, store, db, content_table, model_name, current_result,
                   results, calls, clock, constructs>>

\* search_service.health_check().  fresh tells that the service holds no
\* pipeline yet, so that _get_pipeline constructs one with the default
\* configuration inside the call (under the construction faults f, over a
\* connection that has a length or not);
\* unavailable tells that the constructor raised before it got to the store.
\* sample is what the sample search did inside IndexingPipeline.search,
\* before its exception handler.
HealthCheck(fault, unavailable, fresh, f, sized) ==
    /\ NoActiveCall
    /\ ret = NoRet
    /\ unavailable => fresh
    /\ fresh /\ ~unavailable => constructs < MaxConstructs
    /\ LET made == fresh /\ ~unavailable
           p == IF made
                THEN initialize_database(store, sized, DefaultModel, f)
                ELSE [store |-> store, db |-> db,
                      content_table |-> content_table]
           m == IF made THEN DefaultModel ELSE model_name
           e == IF made THEN [embedder EXCEPT !.cache = NoCache]
                ELSE embedder
       IN  /\ store' = p.store
           /\ db' = p.db
           /\ content_table' = p.content_table
           /\ model_name' = m
           /\ current_result' = IF made THEN 0 ELSE current_result
           /\ constructs' = IF made THEN constructs + 1 ELSE constructs
           /\ \E found \in SearchAnswers(p.store, p.content_table, e, m,
                                         <<"t", "e", "s", "t">>, 1, None,
                                         fault) :
                  ret' = [op |-> "health_check", fault |-> fault,
                          unavailable |-> unavailable, fresh |-> fresh,
                          sample |-> search_body(p.store, p.content_table, e,
                                         m, <<"t", "e", "s", "t">>, 1, None,
                                         50, fault, found),
                          out |-> health_check(p.store, p.db, p.content_table,
                                      e, m, fault, unavailable, found)]
           /\ embedder' =
                  [embedder EXCEPT !.cache =
                      IF unavailable THEN embedder.cache
                      ELSE SearchCache(p.content_table, e, m,
                                       <<"t", "e", "s", "t">>, fault)]
    /\ UNCHANGED <<text_processor, results, calls, clock>>

\* pipeline.search_unified(query, mode) with the defaults limit=10,
\* category_filter=None, similarity_threshold=0.5, case_sensitive=False
SearchUnified(query, mode, fault) ==
    /\ NoActiveCall
    /\ ret = NoRet
    /\ \E found \in UnifiedAnswers(store, content_table, embedder,
                                   model_name, query, mode, 10, None, fault) :
           ret' = [op |-> "search_unified", query |-> query, mode |-> mode,
                   fault |-> fault,
                   out |-> search_unified(store, content_table, embedder,
                                          model_name, query, mode, 10, None,
                                          50, FALSE, fault, found)]
    /\ embedder' = [embedder EXCEPT !.cache =
                        UnifiedCache(content_table, embedder, model_name,
                                     query, mode, fault)]
    /\ UNCHANGED <<text_processor, store, db, content_table, model_name, current_result,
                   results, calls, clock, constructs>>

\* pipeline.get_indexing_stats()
GetIndexingStats(fault) ==
    /\ NoActiveCall
    /\ ret = NoRet
    /\ ret' = [op |-> "get_indexing_stats", fault |-> fault,
               out |-> get_indexing_stats(store, db, content_table, model_name,
                                          fault)]
    /\ UNCHANGED <<text_processor, embedder, store, db, content_table, model_name, current_result,
                   results, calls, clock, constructs>>

\* pipeline.clear_index(category); raised tells whether the call ended in
\* an exception, deleted is the number of rows it removed
ClearIndex(category, fault) ==
    /\ NoActiveCall
    /\ ret = NoRet
    /\ store' = clear_index(store, content_table, category, fault).store
    /\ ret' = [op |-> "clear_index", category |-> category, fault |-> fault,
               raised |-> clear_index(store, content_table, category,
                                      fault).raised,
               deleted |-> Len(store.rows) - Len(store'.rows)]
    /\ UNCHANGED <<text_processor, embedder, db, content_table, model_name, current_result, results,
                   calls, clock, constructs>>

\* the caller takes what the last query, stats or clear call returned
Return ==
    /\ ret # NoRet
    /\ ret' = NoRet
    /\ UNCHANGED <<text_processor, embedder, store, db, content_table, model_name, current_result,
                   results, calls, clock, constructs>>

Filters == {None, "blog", "engineering"}

Slugs == {"alpha", "beta", "gamma", "missing"}

PostFaults == {"none", "chunk", "embed", "store"}

Next ==
    \/ \E m \in ModelNames, f \in FaultScenarios, sized \in BOOLEAN :
           Construct(m, f, sized)
    \/ \E cf \in Filters, fr \in BOOLEAN : IndexAllStart(cf, fr)
    \/ \E c \in 1..MaxCalls, lr \in BOOLEAN : IndexAllLoad(c, lr)
    \/ \E c \in 1..MaxCalls, fault \in PostFaults : IndexAllPost(c, fault)
    \/ \E c \in 1..MaxCalls : IndexAllFinish(c)
    \/ \E c \in 1..MaxCalls : StartPublish(c)
    \/ \E c \in 1..MaxCalls : FinishNow(c)
    \/ \E c \in 1..MaxCalls : FinishStamp(c)
    \/ \E c \in 1..MaxCalls : FinishStatus(c)
    \/ \E cat \in Categories, slug \in Slugs : IndexSingleStart(cat, slug)
    \/ \E c \in 1..MaxCalls, fault \in PostFaults : IndexSinglePost(c, fault)

Spec == Init /\ [][Next]_vars

\* The calls of one pipeline: the indexing operations without a second
\* construction.
IndexNext ==
    \/ \E cf \in Filters : IndexAllStart(cf, FALSE)
    \/ \E c \in 1..MaxCalls, lr \in BOOLEAN : IndexAllLoad(c, lr)
    \/ \E c \in 1..MaxCalls, fault \in PostFaults : IndexAllPost(c, fault)
    \/ \E c \in 1..MaxCalls : IndexAllFinish(c)
    \/ \E c \in 1..MaxCalls : StartPublish(c)
    \/ \E c \in 1..MaxCalls : FinishNow(c)
    \/ \E c \in 1..MaxCalls : FinishStamp(c)
    \/ \E c \in 1..MaxCalls : FinishStatus(c)
    \/ \E cat \in Categories, slug \in Slugs : IndexSingleStart(cat, slug)
    \/ \E c \in 1..MaxCalls, fault \in PostFaults : IndexSinglePost(c, fault)

IndexSpec == IndexInit /\ [][IndexNext]_vars

\* The read path: one indexing run fills the table, a pipeline may be
\* constructed over it again, and queries, stats and clear are served.
Queries ==
    {<<"p", "y">>, <<"T">>, <<"a", "a">>, <<"p", "y", " ", "_">>, <<>>, <<" ">>}

Limits == {1, 2}

Thresholds == {0, 50, 95}

\* the modes asked for: the two documented ones and 'KeyWord'
Modes == {Semantic, Keyword, <<"K", "e", "y", "W", "o", "r", "d">>}

QueryFaults == {"none", "embed", "store"}

StatsFaults == {"none", "count", "count_later", "where"}

\* what the store does during clear_index: fault "count" makes count_rows
\* raise, fault "store" the delete
ClearFaults == {"none", "count", "store"}

QueryNext ==
    \/ ret = NoRet /\
           \E m \in ModelNames, f \in FaultScenarios, sized \in BOOLEAN :
              Construct(m, f, sized)
    \/ \E cf \in Filters : calls = <<>> /\ IndexAllStart(cf, FALSE)
    \/ \E c \in 1..MaxCalls, lr \in BOOLEAN : IndexAllLoad(c, lr)
    \/ \E c \in 1..MaxCalls, fault \in PostFaults : IndexAllPost(c, fault)
    \/ \E c \in 1..MaxCalls : IndexAllFinish(c)
    \/ \E c \in 1..MaxCalls : StartPublish(c)
    \/ \E c \in 1..MaxCalls : FinishNow(c)
    \/ \E c \in 1..MaxCalls : FinishStamp(c)
    \/ \E c \in 1..MaxCalls : FinishStatus(c)
    \/ ret = NoRet /\
           \E q \in Queries, l \in Limits, cf \in Filters, t \in Thresholds,
              fault \in QueryFaults : Search(q, l, cf, t, fault)
    \/ ret = NoRet /\
           \E q \in Queries, l \in Limits, cf \in Filters, cs \in BOOLEAN,
              fault \in QueryFaults : KeywordSearch(q, l, cf, cs, fault)
    \/ ret = NoRet /\
           \E q \in Queries, mode \in Modes, fault \in QueryFaults :
              SearchUnified(q, mode, fault)
    \/ \E fault \in StatsFaults : GetIndexingStats(fault)
    \/ \E c \in Filters, fault \in ClearFaults : ClearIndex(c, fault)
    \/ ret = NoRet /\
           \E fault \in QueryFaults, unavailable \in BOOLEAN,
              fresh \in BOOLEAN, f \in FaultScenarios, sized \in BOOLEAN :
              HealthCheck(fault, unavailable, fresh, f, sized)
    \/ Return

QuerySpec == Init /\ [][QueryNext]_vars

\* The write path alone: _store_embeddings on arbitrary batches, on a
\* pipeline constructed over a store that opens.
BatchContents == {<<"a">>, <<" ">>, <<>>}

\* a vector of the table's width, an empty one and one the table refuses
BatchVectors == {<<5, 0>>, <<>>, <<0, 5, 0>>}

BatchDims == {2, 3}

\* the lists of k chunks of the post blog/alpha
ChunkBatches(k) ==
    {[i \in 1..k |->
         [chunk_id |-> ChunkId("blog", "alpha", i - 1),
          post_slug |-> "alpha", category |-> "blog",
          content |-> f[i], chunk_index |-> i - 1, start_char |-> 0,
          end_char |-> Len(f[i]), word_count |-> Len(Split(f[i])),
          section_title |-> MainContent]] :
     f \in [1..k -> BatchContents]}

\* the lists of k embedding vectors for those chunks
EmbeddingBatches(k) ==
    {[i \in 1..k |->
         [chunk_id |-> ChunkId("blog", "alpha", i - 1),
          vector |-> f[i][1], vector_dim |-> f[i][2],
          model_name |-> model_name]] :
     f \in [1..k -> BatchVectors \X BatchDims]}

\* self._store_embeddings(post, chunks, embedding_vectors)
StoreBatch(chunks, embedding_vectors, fault) ==
    /\ ret = NoRet
    /\ Len(store.rows) < MaxRows
    /\ LET out == store_embeddings(store, content_table, Corpus[1], chunks,
                                   embedding_vectors, fault)
       IN  /\ store' = out.store
           /\ ret' = [op |-> "store_embeddings", chunks |-> chunks,
                      embedding_vectors |-> embedding_vectors,
                      fault |-> fault, raised |-> out.raised,
                      added |-> out.added, before |-> Len(store.rows)]
    /\ UNCHANGED <<text_processor, embedder, db, content_table, model_name, current_result, results,
                   calls, clock, constructs>>

StoreInit ==
    LET p == initialize_database(NoTable, FALSE, DefaultModel, NoFaults)
    IN  /\ store = p.store
        /\ db = p.db
        /\ content_table = p.content_table
        /\ model_name = DefaultModel
        /\ current_result = 0
        /\ results = <<>>
        /\ calls = <<>>
        /\ clock = 1
        /\ constructs = 0
        /\ ret = NoRet
        /\ embedder = PipelineEmbedder
    /\ text_processor = PipelineTextProcessor

\* the lists are of one length, or the embedding list is one short (the
\* case of line 175)
StoreNext ==
    \/ ret = NoRet /\ Len(store.rows) < MaxRows /\
           \E k \in 0..MaxBatch :
              \E chunks \in ChunkBatches(k), evs \in EmbeddingBatches(k),
                 short \in BOOLEAN, fault \in {"none", "store"} :
                     StoreBatch(chunks,
                                IF short /\ k > 0
                                THEN SubSeq(evs, 1, k - 1) ELSE evs,
                                fault)
    \/ Return

StoreSpec == StoreInit /\ [][StoreNext]_vars

\* The embedder alone: generate_embedding, generate_embeddings_batch,
\* clear_cache, save_cache and load_cache on one EmbeddingGenerator.
\* The last text is longer than max_sequence_length and has its last
\* period within the final fifth of the truncated text.
EmbedTexts ==
    {<<" ", "b">>, <<" ">>, <<>>,
     <<"a", "a", "a", "a", "a", "a", "a", "a", "a", ".", "a", "b">>}

TextLists(k) == [1..k -> EmbedTexts]

EmbedInit ==
    /\ \E enabled \in BOOLEAN, batch_size \in {1, 2} :
           embedder = [config |-> [enable_embedding_cache |-> enabled,
                                   batch_size |-> batch_size,
                                   max_sequence_length |-> 11],
                       cache |-> NoCache, cache_file |-> NoCacheFile]
    /\ text_processor = PipelineTextProcessor
    /\ store = NoTable
    /\ db = None
    /\ content_table = None
    /\ model_name = DefaultModel
    /\ current_result = 0
    /\ results = <<>>
    /\ calls = <<>>
    /\ clock = 1
    /\ constructs = 0
    /\ ret = NoRet

EmbedFrame ==
    UNCHANGED <<text_processor, store, db, content_table, model_name, current_result,
                results, calls, clock, constructs>>

\* embedder.generate_embedding(text); hit tells whether the cache held it
GenerateEmbedding(text, fault) ==
    /\ ret = NoRet
    /\ LET out == generate_embedding(embedder.config, embedder.cache,
                                  model_name, text, fault)
       IN  /\ embedder' = [embedder EXCEPT !.cache = out.cache]
           /\ ret' = [op |-> "generate_embedding", text |-> text,
                      fault |-> fault, raised |-> out.raised,
                      value |-> out.value, before |-> embedder.cache,
                      hit |-> check_cache(embedder.config, embedder.cache,
                                          model_name, text) # <<>>]
    /\ EmbedFrame

\* embedder.generate_embeddings_batch(texts); hits is the number of texts
\* the cache held
GenerateEmbeddingsBatch(texts, fault_at) ==
    /\ ret = NoRet
    /\ LET out == generate_embeddings_batch(embedder.config, embedder.cache,
                                        model_name, texts, fault_at)
       IN  /\ embedder' = [embedder EXCEPT !.cache = out.cache]
           /\ ret' = [op |-> "generate_embeddings_batch", texts |-> texts,
                      fault_at |-> fault_at, raised |-> out.raised,
                      value |-> out.value, before |-> embedder.cache,
                      hits |-> Cardinality(CachedPlaces(embedder.config,
                                  embedder.cache, model_name, texts))]
    /\ EmbedFrame

\* embedder.clear_cache()
ClearCache ==
    /\ ret = NoRet
    /\ embedder' = [embedder EXCEPT !.cache = NoCache]
    /\ ret' = ret
    /\ EmbedFrame

\* what may go wrong in save_cache: cache_dir.mkdir raises (the parent
\* directory is missing), open() raises, json.dump raises
SaveFaults == {"none", "mkdir", "open", "write"}

\* embedder.save_cache().  The exception of mkdir, which is outside the
\* try, reaches the caller and nothing is written; an open() that fails
\* leaves the file as it was; a write that fails after open() leaves an
\* unreadable file.
SaveCache(fault) ==
    /\ ret = NoRet
    /\ embedder' =
           IF ~embedder.config.enable_embedding_cache THEN embedder
           ELSE IF fault \in {"mkdir", "open"} THEN embedder
           ELSE [embedder EXCEPT !.cache_file =
                   IF fault = "write"
                   THEN [state |-> "unreadable", content |-> NoCache]
                   ELSE [state |-> "saved", content |-> embedder.cache]]
    /\ ret' = IF embedder.config.enable_embedding_cache /\ fault = "mkdir"
              THEN [op |-> "save_cache", raised |-> TRUE]
              ELSE ret
    /\ EmbedFrame

\* embedder.load_cache()
LoadCache ==
    /\ ret = NoRet
    /\ embedder' =
           IF ~embedder.config.enable_embedding_cache THEN embedder
           ELSE IF embedder.cache_file.state = "absent" THEN embedder
           ELSE IF embedder.cache_file.state = "unreadable" THEN embedder
           ELSE [embedder EXCEPT !.cache = embedder.cache_file.content]
    /\ ret' = ret
    /\ EmbedFrame

\* the caller takes the vectors
EmbedReturn ==
    /\ ret # NoRet
    /\ ret' = NoRet
    /\ UNCHANGED embedder
    /\ EmbedFrame

EmbedNext ==
    \/ ret = NoRet /\ \E text \in EmbedTexts, fault \in {"none", "embed"} :
           GenerateEmbedding(text, fault)
    \/ ret = NoRet /\ \E k \in 0..MaxTexts :
           \E texts \in TextLists(k), fault_at \in 0..2 :
               GenerateEmbeddingsBatch(texts, fault_at)
    \/ ClearCache
    \/ \E fault \in SaveFaults : SaveCache(fault)
    \/ LoadCache
    \/ EmbedReturn

EmbedSpec == EmbedInit /\ [][EmbedNext]_vars

\* The text processor alone: create_chunks on a TextProcessor of any of
\* the configurations below with chunk_overlap < chunk_size (the others are
\* in LoopSpec). With chunk_size 1 and min_chunk_size 0 a window of one
\* blank character reaches ContentChunk, which refuses it.
ChunkSizes == {1, 4, 6}

ChunkOverlaps == {0, 1, 2}

MinChunkSizes == {0, 1, 2, 3}

\* plain texts, texts with sentences, a word longer than chunk_size after a
\* short one, texts with headings (with and without text before the first
\* one, with a heading of whitespace only), blank texts
ChunkTexts ==
    {<<"a", "b", " ", "c", "d", " ", "e", "f", " ", "g", "h">>,
     <<"a", " ", "b", "b", "b", "b", "b", "b", "b", " ", "c", " ", "d">>,
     <<"a", "b", ".", " ", "c", "d", ".", " ", "e", "f", "g", "h">>,
     <<"a", ".", " ", "b", ".", " ", "c", "c", "c", "c", "c", "c", "c", "c">>,
     <<"a", "a", "a", "\n", "#", "#", "#", " ", "T", "\n", "b", "b", " ", "b", "b", " ", "b", "b">>,
     <<"#", "#", "#", " ", "T", "\n", "b", "b", "\n", "#", "#", "#", " ", "U", "\n", "c", "c", " ", "c", "c", " ", "c", "c", " ", "c", "c">>,
     <<"x", "\n", "#", "#", "#", "\t", "\n", "y", "y", " ", "y", "y", " ", "y", "y", " ", "y", "y">>,
     <<" ">>,
     <<>>}

ChunkInit ==
    /\ \E chunk_size \in ChunkSizes, chunk_overlap \in ChunkOverlaps,
          min_chunk_size \in MinChunkSizes,
          preserve_sections \in BOOLEAN, langchain_available \in BOOLEAN :
           /\ chunk_overlap < chunk_size
           /\ text_processor =
               [config |-> [chunk_size |-> chunk_size,
                            chunk_overlap |-> chunk_overlap,
                            min_chunk_size |-> min_chunk_size,
                            preserve_sections |-> preserve_sections,
                            langchain_available |-> langchain_available]]
    /\ embedder = PipelineEmbedder
    /\ store = NoTable
    /\ db = None
    /\ content_table = None
    /\ model_name = DefaultModel
    /\ current_result = 0
    /\ results = <<>>
    /\ calls = <<>>
    /\ clock = 1
    /\ constructs = 0
    /\ ret = NoRet

\* what the caller of create_chunks holds after the call that ended in
\* made: the list out, or the exception
ChunksReturn(text, category, made, again, before) ==
    [op |-> "create_chunks", text |-> text, post_slug |-> "alpha",
     category |-> category, raised |-> made.raised, out |-> made.value,
     again |-> again, before |-> before]

\* text_processor.create_chunks(text, 'alpha', category), by a caller that
\* may still hold the list of the call before: `again` says that the call
\* before had the same text, slug and category, `before` is its list
CreateChunks(text, category) ==
    /\ ret = NoRet \/ ret.op = "create_chunks"
    /\ LET again == /\ ret.op = "create_chunks"
                     /\ ret.text = text
                     /\ ret.category = category
       IN  ret' = ChunksReturn(text, category,
                               create_chunks(text_processor.config, text,
                                             "alpha", category),
                               again, IF again THEN ret.out ELSE <<>>)
    /\ UNCHANGED <<text_processor, embedder, store, db, content_table,
                   model_name, current_result, results, calls, clock,
                   constructs>>

ChunkNext ==
    \/ \E text \in ChunkTexts, category \in {"blog", "engineering"} :
           CreateChunks(text, category)
    \/ Return

ChunkSpec == ChunkInit /\ [][ChunkNext]_vars

\* create_chunks_simple pass by pass: the frame of the running call is in
\* ret, with pc "loop" while the call is in its while loop, "returned" after
\* `return chunks` and "raised" after ContentChunk refused a blank content.
\* chunk_overlap may reach or exceed chunk_size: ChunkingConfig relates the
\* three numbers in no way.
LoopChunkSizes == {2, 4}

LoopChunkOverlaps == {0, 1, 4, 5}

LoopMinChunkSizes == {0, 1, 2}

LoopTexts ==
    {<<"a", "b", " ", "c", "d", " ", "e", "f", " ", "g", "h">>,
     <<"a", "b", ".", " ", "c", "d", ".", " ", "e", "f", "g", "h">>,
     <<"a", ".", " ", "b", ".", " ", "c", "c", "c", "c", "c", "c", "c", "c">>,
     <<"a", "b", "c", "d", "e", "f">>,
     <<" ", "a", "b", " ">>,
     <<" ">>}

LoopInit ==
    /\ \E chunk_size \in LoopChunkSizes, chunk_overlap \in LoopChunkOverlaps,
          min_chunk_size \in LoopMinChunkSizes :
           text_processor =
               [config |-> [chunk_size |-> chunk_size,
                            chunk_overlap |-> chunk_overlap,
                            min_chunk_size |-> min_chunk_size,
                            preserve_sections |-> FALSE,
                            langchain_available |-> FALSE]]
    /\ embedder = PipelineEmbedder
    /\ store = NoTable
    /\ db = None
    /\ content_table = None
    /\ model_name = DefaultModel
    /\ current_result = 0
    /\ results = <<>>
    /\ calls = <<>>
    /\ clock = 1
    /\ constructs = 0
    /\ ret = NoRet

LoopFrame ==
    UNCHANGED <<text_processor, embedder, store, db, content_table,
                model_name, current_result, results, calls, clock,
                constructs>>

InSimpleLoop == ret.op = "create_chunks_simple" /\ ret.pc = "loop"

\* text_processor.create_chunks_simple(text, 'alpha', 'blog') up to the
\* while loop
CallCreateChunksSimple(text) ==
    /\ ret = NoRet
    /\ ret' = [op |-> "create_chunks_simple",
               pc |-> IF IsBlank(text) THEN "returned" ELSE "loop",
               text |-> clean_text(text), start |-> 0, chunk_index |-> 0,
               chunks |-> <<>>, iterations |-> 0]
    /\ LoopFrame

\* the test of the while loop failed: return chunks
LoopExit ==
    /\ InSimpleLoop
    /\ ret.start >= Len(ret.text)
    /\ ret' = [ret EXCEPT !.pc = "returned"]
    /\ LoopFrame

\* one pass through the body of the while loop
LoopIteration ==
    /\ InSimpleLoop
    /\ ret.start < Len(ret.text)
    /\ ret.iterations < MaxIterations
    /\ LET it == SimpleIteration(text_processor.config, ret.text, ret.start)
       IN  ret' =
             IF it.skipped
             THEN [ret EXCEPT !.start = it.start,
                              !.iterations = ret.iterations + 1]
             ELSE IF IsBlank(it.content)
             THEN [ret EXCEPT !.pc = "raised",
                              !.iterations = ret.iterations + 1]
             ELSE [ret EXCEPT
                      !.chunks = Append(ret.chunks,
                                        NewChunk("alpha", "blog", it.content,
                                                 ret.chunk_index, ret.start,
                                                 it.end, <<>>)),
                      !.chunk_index = ret.chunk_index + 1,
                      !.start = it.start,
                      !.pc = IF it.start >= Len(ret.text) THEN "returned"
                             ELSE "loop",
                      !.iterations = ret.iterations + 1]
    /\ LoopFrame

\* the caller takes the list, or the exception
LoopReturn ==
    /\ ret.op = "create_chunks_simple"
    /\ ret.pc # "loop"
    /\ ret' = NoRet
    /\ LoopFrame

LoopNext ==
    \/ \E text \in LoopTexts : CallCreateChunksSimple(text)
    \/ LoopExit
    \/ LoopIteration
    \/ LoopReturn

LoopSpec == LoopInit /\ [][LoopNext]_vars

\* Indexing calls from several threads on one pipeline: a call may enter
\* while another one is between two of its steps.
OverlapNext ==
    \/ \E cf \in Filters : IndexAllEnter(cf, FALSE)
    \/ \E c \in 1..MaxCalls, lr \in BOOLEAN : IndexAllLoad(c, lr)
    \/ \E c \in 1..MaxCalls, fault \in PostFaults : IndexAllPost(c, fault)
    \/ \E c \in 1..MaxCalls : IndexAllFinish(c)
    \/ \E c \in 1..MaxCalls : StartPublish(c)
    \/ \E c \in 1..MaxCalls : FinishNow(c)
    \/ \E c \in 1..MaxCalls : FinishStamp(c)
    \/ \E c \in 1..MaxCalls : FinishStatus(c)
    \/ \E cat \in Categories, slug \in Slugs : IndexSingleEnter(cat, slug)
    \/ \E c \in 1..MaxCalls, fault \in PostFaults : IndexSinglePost(c, fault)

OverlapSpec == Init /\ [][OverlapNext]_vars

(***************************** properties **********************************)

IndexAllCalls == {c \in 1..Len(calls) : calls[c].op = "index_all"}

\* the calls of index_all_content that entered the per-document loop
LoopCalls == {c \in IndexAllCalls : calls[c].posts # <<>>}

\* every document the loop has passed is counted once, as processed or as
\* skipped with one error, and a call that leaves the loop ends completed
LoopAccounts ==
    \A c \in LoopCalls :
        /\ Len(results[c].errors) = results[c].posts_skipped
        /\ results[c].posts_processed + results[c].posts_skipped
               = calls[c].i - 1
        /\ calls[c].pc = "done" =>
               /\ results[c].status = "completed"
               /\ calls[c].i = Len(calls[c].posts) + 1

\* a loop step whose document raises appends one error, adds one to
\* posts_skipped, leaves the store alone and moves on to the next document
RaiseIsCaught ==
    \A c \in 1..MaxCalls, fault \in PostFaults :
        (/\ IndexAllPost(c, fault)
         /\ ProcessPost(store, content_table, embedder, model_name,
                        calls[c].posts[calls[c].i], results[c], fault).raised)
        => /\ Len(results'[c].errors) = Len(results[c].errors) + 1
           /\ results'[c].posts_skipped = results[c].posts_skipped + 1
           /\ results'[c].posts_processed = results[c].posts_processed
           /\ results'[c].status = "running"
           /\ calls'[c].i = calls[c].i + 1
           /\ calls'[c].pc \in {"loop", "finish"}
           /\ store' = store

\* C1: in index_all_content a document whose chunking, embedding or
\* storing raises is caught inside the loop: one error is appended,
\* posts_skipped grows by one, the documents after it are still processed
\* and the call ends with status completed.
C1_PerDocumentIsolation == []LoopAccounts /\ [][RaiseIsCaught]_vars

\* the first of two documents was skipped, the second was still indexed
\* and the call completed
C1_Witness ==
    \E c \in LoopCalls :
        /\ calls[c].pc = "done"
        /\ Len(calls[c].posts) = 2
        /\ results[c].status = "completed"
        /\ results[c].posts_skipped = 1
        /\ Len(results[c].errors) = 1
        /\ results[c].posts_processed = 1
        /\ results[c].chunks_created = 1
        /\ \E i \in 1..Len(store.rows) :
               store.rows[i].chunk_id = "engineering_beta_000"

Final == {"completed", "failed"}

\* a result is running exactly while its call has not returned, and a call
\* that returned left it final with completed_at set; completed_at is set
\* only within _finish_indexing_operation
FinalWhenReturned ==
    /\ Len(results) = Len(calls)
    /\ \A c \in 1..Len(calls) :
           IF calls[c].pc = "done"
           THEN /\ results[c].status \in Final
                /\ results[c].completed_at # 0
                /\ results[c].completed_at >= results[c].started_at
           ELSE /\ results[c].status = "running"
                /\ results[c].completed_at # 0 => calls[c].pc = "status"

\* a result is created running, gets its completed_at once, from the
\* clock, and its final status once, by the step that returns its call, and
\* once final never changes
FinalizedOnce ==
    /\ \A c \in 1..Len(results') :
           c > Len(results) =>
               results'[c].status = "running" /\ results'[c].completed_at = 0
    /\ \A c \in 1..Len(results) :
           /\ results[c].status \in Final => results'[c] = results[c]
           /\ results'[c].completed_at # results[c].completed_at
                  => /\ results[c].completed_at = 0
                     /\ results'[c].completed_at = calls[c].now
                     /\ calls[c].pc = "stamp"
           /\ results[c].status = "running" /\ results'[c].status # "running"
                  => /\ results'[c].status \in Final
                     /\ results'[c].completed_at # 0
                     /\ calls[c].pc = "status" /\ calls'[c].pc = "done"

\* C3: every IndexingResult starts running, is finalized exactly once to
\* completed or failed with completed_at set before its call returns, on
\* every path, and never changes afterwards, also when later indexing
\* calls run on the same pipeline.
C3_FinalizedExactlyOnce == []FinalWhenReturned /\ [][FinalizedOnce]_vars

\* a failed result stayed failed while a later call ran to completion
C3_Witness ==
    /\ Len(calls) = 2
    /\ calls[1].pc = "done" /\ calls[2].pc = "done"
    /\ results[1].status = "failed"
    /\ results[2].status = "completed"
    /\ results[1].completed_at < results[2].started_at

\* C2: re-indexing replaces rather than appends: whatever index runs went
\* before, no chunk_id appears in two rows of the table, so a second run
\* over the same corpus leaves the chunk_ids and the row count of the first.
C2_ReindexReplaces ==
    \A i, j \in 1..Len(store.rows) :
        i # j => store.rows[i].chunk_id # store.rows[j].chunk_id

\* the chunk_ids of the rows of the table
StoredChunkIds == {store.rows[i].chunk_id : i \in 1..Len(store.rows)}

\* the call that returned last, on the pipeline that is still the current
\* one: nothing touched the pipeline or the table since it returned
JustReturned(c) ==
    /\ c = Len(calls)
    /\ calls[c].pc = "done"
    /\ current_result = c

\* C5: index_single_post runs Chunk, Embed and Store: when it returns
\* completed with posts_updated = 1 and chunks_created = n > 0 while the
\* table is available, the table holds the n chunk rows of the document.
C5_SinglePostStored ==
    \A c \in 1..Len(calls) :
        (/\ JustReturned(c)
         /\ calls[c].op = "index_single"
         /\ results[c].status = "completed"
         /\ results[c].posts_updated = 1
         /\ results[c].chunks_created > 0
         /\ content_table # None /\ store.exists)
        => \A k \in 0..(results[c].chunks_created - 1) :
               ChunkId(calls[c].category, calls[c].slug, k) \in StoredChunkIds

\* C6: on a pipeline whose store could not be opened (db or content_table
\* is None) every indexing call ends failed with a recorded error, never
\* completed.
C6_NoStoreFails ==
    \A c \in 1..Len(calls) :
        JustReturned(c) /\ (db = None \/ content_table = None)
        => results[c].status = "failed" /\ results[c].errors # <<>>

\* C8: a constructed pipeline with a reachable store has a table whose
\* vector column is as wide as the embedding dimension of its model, also
\* when a table of another width was there before.
C8_WidthMatchesModel ==
    db # None /\ content_table # None
    => store.exists /\ store.width = EmbeddingDimension(model_name)

\* C9: all rows of the table carry the same (model_name, vector_dim); rows
\* of two embedding models never coexist.
C9_OneModelPerTable ==
    \A i, j \in 1..Len(store.rows) :
        /\ store.rows[i].model_name = store.rows[j].model_name
        /\ store.rows[i].vector_dim = store.rows[j].vector_dim

\* the rows of other categories than c, in table order
RowsOutside(rows, c) == SelectSeq(rows, LAMBDA r : r.category # c)

\* the step of clear_index(category) on an available table whose delete
\* does not raise
Clears(category) == ClearIndex(category, "none") /\ content_table # None

\* clear_index(c) leaves no row of c and every other row as it was;
\* clear_index() leaves no row
ClearDeletesCategory ==
    /\ \A c \in Categories :
           Clears(c) => /\ RowsOutside(store'.rows, c) = store'.rows
                        /\ store'.rows = RowsOutside(store.rows, c)
    /\ Clears(None) => store'.rows = <<>>

\* get_indexing_stats after clear_index('blog'): no blog chunks or posts,
\* the engineering counts of before
ClearShowsInStats ==
    /\ Clears("blog")
    /\ \E i \in 1..Len(store.rows) : store.rows[i].category = "blog"
    /\ \E i \in 1..Len(store.rows) : store.rows[i].category = "engineering"
    =>
        LET before == get_indexing_stats(store, db, content_table,
                                         model_name, "none")
            after == get_indexing_stats(store', db', content_table',
                                        model_name', "none")
        IN  /\ after.categories["blog"] = [posts |-> 0, chunks |-> 0]
            /\ after.categories["engineering"]
                   = before.categories["engineering"]

\* C4: clear_index(category=c) deletes every row of category c and leaves
\* the rows of other categories unchanged, clear_index() deletes all rows,
\* and after clear_index('blog') the stats show zero blog chunks and posts
\* and the engineering counts of before.
C4_ClearByCategory == [][ClearDeletesCategory /\ ClearShowsInStats]_vars

\* clear_index('blog') removed the two blog rows and left the engineering
\* row
C4_Witness ==
    /\ ret.op = "clear_index"
    /\ ret.category = "blog"
    /\ ret.fault = "none"
    /\ ret.deleted = 2
    /\ Len(store.rows) = 1
    /\ store.rows[1].category = "engineering"

IsQuery == ret.op \in {"search", "keyword_search", "search_unified"}

\* whether the returned query ran as a keyword search
RanKeyword ==
    \/ ret.op = "keyword_search"
    \/ ret.op = "search_unified" /\ Lower(ret.mode) = Keyword

\* no query raises or asks the store twice; without a table, with a blank
\* query, or when the embedder or the store raises, the list is empty
QueryDegrades ==
    IsQuery =>
        /\ ~ret.out.raised
        /\ ret.out.store_calls <= 1
        /\ content_table = None =>
               ret.out.value = <<>> /\ ret.out.store_calls = 0
        /\ IsBlank(ret.query) => ret.out.value = <<>>
        /\ ret.fault = "store" => ret.out.value = <<>>
        /\ ~RanKeyword /\ ret.fault = "embed" => ret.out.value = <<>>
        /\ ~RanKeyword /\ EmbeddingDimension(model_name) # store.width
               => ret.out.value = <<>>

\* without a table the stats carry no category counts and clear_index
\* deletes nothing
NoTableDegrades ==
    content_table = None =>
        /\ ret.op = "get_indexing_stats" =>
               /\ ~ret.out.raised
               /\ DOMAIN ret.out.categories = {}
               /\ ~ret.out.has_total_chunks
               /\ ret.out.error = ""
        /\ ret.op = "clear_index" => ~ret.raised /\ ret.deleted = 0

\* C7: without a table search, keyword_search and search_unified return
\* an empty list, get_indexing_stats returns no category counts and
\* clear_index changes nothing, and none raises; when the embedder or the
\* store raises during a query, or the query is blank, search and
\* keyword_search return an empty list without asking the store again.
C7_DegradesToEmpty == QueryDegrades /\ NoTableDegrades

\* a search on a pipeline without a table returned the empty list although
\* the persisted table holds rows
C7_Witness ==
    /\ content_table = None
    /\ store.exists /\ store.rows # <<>>
    /\ ret.op = "search"
    /\ ret.fault = "none"
    /\ ~IsBlank(ret.query)
    /\ ret.out.value = <<>>

\* the pairs of the stored batch with content that is not blank and a
\* vector that is not empty
ValidPairs ==
    {i \in 1..Len(ret.chunks) :
        /\ Strip(ret.chunks[i].content) # <<>>
        /\ Len(ret.embedding_vectors[i].vector) > 0}

\* C10: of a batch of (chunk, embedding) pairs _store_embeddings skips the
\* pairs with blank content or an empty vector without failing the batch,
\* inserts a pair whose declared vector_dim differs from len(vector) with
\* vector_dim set to len(vector), never rejecting it, and inserts every
\* other pair: the rows added are as many as the valid pairs.
C10_SkipsInvalidPairs ==
    /\ ret.op = "store_embeddings"
    /\ Len(ret.chunks) = Len(ret.embedding_vectors)
    /\ ret.fault = "none"
    => /\ ~ret.raised
       /\ Len(ret.added) = Cardinality(ValidPairs)
       /\ Len(store.rows) = ret.before + Cardinality(ValidPairs)
       /\ SubSeq(store.rows, ret.before + 1, Len(store.rows)) = ret.added
       /\ \A i \in ValidPairs :
              \E j \in 1..Len(ret.added) :
                  /\ ret.added[j].chunk_id
                         = ret.embedding_vectors[i].chunk_id
                  /\ ret.added[j].vector = ret.embedding_vectors[i].vector
                  /\ ret.added[j].vector_dim
                         = Len(ret.embedding_vectors[i].vector)

\* what holds of the same calls: the batch is stored whole when every valid
\* pair's vector has the width of the table's vector column, and nothing of
\* it is stored otherwise
StoredWhenFitting ==
    ret.op = "store_embeddings"
    /\ Len(ret.chunks) = Len(ret.embedding_vectors)
    => /\ (/\ ret.fault = "none"
            /\ \A i \in ValidPairs :
                   Len(ret.embedding_vectors[i].vector) = store.width)
           => ~ret.raised
       /\ ret.raised => Len(store.rows) = ret.before
       /\ ~ret.raised =>
              /\ Len(ret.added) = Cardinality(ValidPairs)
              /\ Len(store.rows) = ret.before + Cardinality(ValidPairs)
              /\ SubSeq(store.rows, ret.before + 1, Len(store.rows))
                     = ret.added
              /\ \A i \in ValidPairs :
                     \E j \in 1..Len(ret.added) :
                         /\ ret.added[j].chunk_id
                                = ret.embedding_vectors[i].chunk_id
                         /\ ret.added[j].vector
                                = ret.embedding_vectors[i].vector
                         /\ ret.added[j].vector_dim
                                = Len(ret.embedding_vectors[i].vector)

\* a pair that declared the table's width with a vector of another width
\* was refused by the table, and with it the valid pair next to it
C10_BatchRejected ==
    /\ ret.op = "store_embeddings"
    /\ ret.fault = "none"
    /\ ret.raised
    /\ Len(ret.chunks) = 2 /\ Len(ret.embedding_vectors) = 2
    /\ Cardinality(ValidPairs) = 2
    /\ Len(ret.embedding_vectors[1].vector) = store.width
    /\ ret.embedding_vectors[2].vector_dim = store.width
    /\ Len(ret.embedding_vectors[2].vector) # store.width
    /\ Len(store.rows) = ret.before

(* the embedder *)

IsBatch == ret # NoRet /\ ret.op = "generate_embeddings_batch" /\ ~ret.raised

IsSingle == ret # NoRet /\ ret.op = "generate_embedding" /\ ~ret.raised

NonBlank(texts) == SelectSeq(texts, LAMBDA t : ~IsBlank(t))

\* what generate_embedding returns for each text of the list, on a
\* generator whose cache is the given one
OneByOne(cfg, cache, texts) ==
    [i \in 1..Len(texts) |->
        generate_embedding(cfg, cache, model_name, texts[i], "none").value]

\* C11: generate_embeddings_batch returns one vector per non-blank text, in
\* input order, each the vector generate_embedding returns for that text
\* (asked before the batch call or after it); blank texts leave no element.
C11_BatchOnePerNonBlank ==
    IsBatch =>
        /\ Len(ret.value) = Len(NonBlank(ret.texts))
        /\ ret.value = OneByOne(embedder.config, ret.before,
                                NonBlank(ret.texts))
        /\ ret.value = OneByOne(embedder.config, embedder.cache,
                                NonBlank(ret.texts))

\* a batch of three texts with a blank one in the middle, the last text
\* already cached and the first not, two different vectors returned
C11_Witness ==
    /\ IsBatch
    /\ Len(ret.texts) = 3
    /\ IsBlank(ret.texts[2])
    /\ ~IsBlank(ret.texts[1])
    /\ check_cache(embedder.config, ret.before, model_name,
                   ret.texts[1]) = <<>>
    /\ check_cache(embedder.config, ret.before, model_name,
                   ret.texts[3]) # <<>>
    /\ Len(ret.value) = 2
    /\ ret.value[1] # ret.value[2]

\* the same generator with enable_embedding_cache off and nothing cached
Uncached(cfg) == [cfg EXCEPT !.enable_embedding_cache = FALSE]

CacheHoldsPlainVectors(cache) ==
    \A k \in DOMAIN cache :
        cache[k] = generate_embedding(Uncached(embedder.config), NoCache,
                                   k[1], k[3], "none").value

\* C12: whatever was cached, cleared, saved or loaded before, the vectors
\* returned are those of a generator of the same configuration with the
\* cache switched off, and the cache and its file hold only such vectors.
C12_CacheTransparent ==
    /\ IsSingle =>
          ret.value = generate_embedding(Uncached(embedder.config), NoCache,
                                      model_name, ret.text, "none").value
    /\ IsBatch =>
          ret.value = generate_embeddings_batch(Uncached(embedder.config),
                          NoCache, model_name, ret.texts, 0).value
    /\ CacheHoldsPlainVectors(embedder.cache)
    /\ CacheHoldsPlainVectors(embedder.cache_file.content)

\* a text longer than max_sequence_length answered from a cache that was
\* saved, cleared and loaded again
C12_Witness ==
    /\ IsSingle
    /\ ret.hit
    /\ Len(ret.text) > embedder.config.max_sequence_length
    /\ embedder.cache_file.state = "saved"
    /\ embedder.cache = embedder.cache_file.content

(* semantic search *)

IsSearch == ret # NoRet /\ ret.op = "search"

\* squared distances times 25, from 0 to beyond max_distance
SampleDistances == {0, 1, 7, 10, 20, 34, 50, 80, 90, 99, 100, 101, 125}

\* the score of the claim for a squared distance times 25: the float
\* nearest to max(0, 1 - d / 4.0), d being the distance the store returned
ClaimedScore(d25) ==
    IF d25 >= 100 THEN FloatZero
    ELSE RoundToFloat(
             ExactDifference(FloatOne, FloatHalf(FloatHalf(Distance(d25)))),
             FALSE)

\* 0.0 <= x <= 1.0
InUnitInterval(x) == ~FloatLess(x, FloatZero) /\ ~FloatLess(FloatOne, x)

\* the score function on the sample distances: the claimed value, in
\* [0, 1], and never lower for the nearer of two distances
ScoreOnSamples ==
    \A a \in SampleDistances :
        /\ SimilarityScore(a) = ClaimedScore(a)
        /\ InUnitInterval(SimilarityScore(a))
        /\ \A b \in SampleDistances :
               a < b => ~FloatLess(SimilarityScore(a), SimilarityScore(b))

\* C13: every returned score is max(0, 1 - distance / 4.0), lies in [0, 1],
\* and a strictly nearer row never has a lower score; the same for the
\* score function on distances up to and beyond the cap.
C13_ScoreFromDistance ==
    /\ IsSearch =>
          \A i \in 1..Len(ret.out.value) :
              LET r == ret.out.value[i]
              IN  /\ r.score = ClaimedScore(r.distance)
                  /\ InUnitInterval(r.score)
                  /\ \A j \in 1..Len(ret.out.value) :
                         r.distance < ret.out.value[j].distance =>
                             ~FloatLess(r.score, ret.out.value[j].score)
    /\ ScoreOnSamples

\* a search that returned two rows at different distances, the nearer one
\* with the strictly higher score
C13_Witness ==
    /\ IsSearch
    /\ Len(ret.out.value) = 2
    /\ ret.out.value[1].distance < ret.out.value[2].distance
    /\ FloatLess(ret.out.value[2].score, ret.out.value[1].score)
    /\ FloatLess(FloatZero, ret.out.value[2].score)

\* a search that reached the store and got its answer
SearchAnswered ==
    /\ IsSearch
    /\ content_table # None
    /\ ret.fault = "none"
    /\ ~IsBlank(ret.query)
    /\ store.exists
    /\ EmbeddingDimension(model_name) = store.width

\* the rows a search may return: all rows, or those of the category
EligibleRows(category_filter) ==
    IF category_filter # None /\ category_filter # ""
    THEN SelectSeq(store.rows, LAMBDA row : row.category = category_filter)
    ELSE store.rows

\* the place of eligible row i in the ranking by ascending distance to q,
\* rows at equal distance in store order
Rank(rows, q, i) ==
    1 + Cardinality({j \in 1..Len(rows) :
            \/ SqDist(rows[j].vector, q) < SqDist(rows[i].vector, q)
            \/ /\ SqDist(rows[j].vector, q) = SqDist(rows[i].vector, q)
               /\ j < i})

\* C14 as the specification states it: a search returns the rows of the
\* first `limit` places of the ranking by ascending distance, rows at equal
\* distance in store order, whose score reaches the threshold, in ranking
\* order: at most `limit` entries, by descending score, a prefix of the
\* ranking.
C14_ThresholdedNearest ==
    SearchAnswered =>
        LET rows == EligibleRows(ret.category_filter)
            q == Encode(model_name, Strip(ret.query))
            wanted == {i \in 1..Len(rows) :
                         /\ Rank(rows, q, i) <= ret.limit
                         /\ ~FloatLess(
                                ClaimedScore(SqDist(rows[i].vector, q)),
                                Threshold(ret.threshold))}
            out == ret.out.value
        IN  /\ Len(out) = Cardinality(wanted)
            /\ Len(out) <= ret.limit
            /\ \A k \in 1..Len(out) :
                   \E i \in wanted :
                       /\ Rank(rows, q, i) = k
                       /\ out[k].content = rows[i].content
                       /\ out[k].slug = rows[i].post_slug
                       /\ out[k].distance = SqDist(rows[i].vector, q)
            /\ \A k \in 1..(Len(out) - 1) :
                   ~FloatLess(out[k].score, out[k + 1].score)

\* row reaches the threshold of the search with query vector q
ReachesThreshold(row, q) ==
    ~FloatLess(ClaimedScore(SqDist(row.vector, q)), Threshold(ret.threshold))

\* the eligible rows strictly nearer to q than rows[i]
StrictlyNearer(rows, q, i) ==
    {j \in 1..Len(rows) :
        SqDist(rows[j].vector, q) < SqDist(rows[i].vector, q)}

\* the other eligible rows no farther from q than rows[i]
NoFarther(rows, q, i) ==
    {j \in 1..Len(rows) :
        j # i /\ SqDist(rows[j].vector, q) <= SqDist(rows[i].vector, q)}

\* C14, amended: a search returns the rows of the store's answer whose
\* score reaches the threshold, in the order of the answer, the order of
\* rows at equal distance being the store's own.  The list has at most
\* `limit` entries, is sorted by descending score and is a prefix of the
\* answer: no row below the threshold is returned and no row of the answer
\* at or above it is omitted.  Every returned row is an eligible row with
\* fewer than `limit` eligible rows strictly nearer, and without a category
\* filter every row that reaches the threshold and has fewer than `limit`
\* other rows no farther than itself is returned.
C14_ThresholdedAnswer ==
    SearchAnswered =>
        LET rows == EligibleRows(ret.category_filter)
            q == Encode(model_name, Strip(ret.query))
            answer == ret.found.value
            out == ret.out.value
        IN  /\ Len(out) <= ret.limit
            /\ Len(out) <= Len(answer)
            /\ \A k \in 1..Len(out) :
                   /\ out[k].content = answer[k].content
                   /\ out[k].slug = answer[k].post_slug
                   /\ out[k].distance = SqDist(answer[k].vector, q)
                   /\ ReachesThreshold(answer[k], q)
                   /\ \E i \in 1..Len(rows) :
                          /\ rows[i] = answer[k]
                          /\ Cardinality(StrictlyNearer(rows, q, i))
                                 < ret.limit
            /\ \A k \in (Len(out) + 1)..Len(answer) :
                   ~ReachesThreshold(answer[k], q)
            /\ \A k \in 1..(Len(out) - 1) :
                   /\ ~FloatLess(out[k].score, out[k + 1].score)
                   /\ out[k].distance <= out[k + 1].distance
            /\ (ret.category_filter = None \/ ret.category_filter = "") =>
                   \A i \in 1..Len(rows) :
                       /\ ReachesThreshold(rows[i], q)
                       /\ Cardinality(NoFarther(rows, q, i)) < ret.limit
                       => \E k \in 1..Len(out) :
                              /\ out[k].content = rows[i].content
                              /\ out[k].slug = rows[i].post_slug
                              /\ out[k].distance
                                     = SqDist(rows[i].vector, q)

\* three rows, two of them at the same distance; limit 2 cuts the store's
\* answer to two rows and the threshold drops the second of them
C14_Witness ==
    /\ SearchAnswered
    /\ ret.category_filter = None
    /\ Len(store.rows) = 3
    /\ ret.limit = 2
    /\ Len(ret.found.value) = 2
    /\ Len(ret.out.value) = 1
    /\ \E i, j \in 1..3 :
           /\ i # j
           /\ store.rows[i].vector = store.rows[j].vector

\* two rows at the same distance returned against their order in the store
C14_TiesAgainstStoreOrder ==
    /\ SearchAnswered
    /\ Len(ret.out.value) = 2
    /\ ret.out.value[1].distance = ret.out.value[2].distance
    /\ \E i, j \in 1..Len(store.rows) :
           /\ i < j
           /\ store.rows[j].content = ret.out.value[1].content
           /\ store.rows[j].post_slug = ret.out.value[1].slug
           /\ store.rows[i].content = ret.out.value[2].content
           /\ store.rows[i].post_slug = ret.out.value[2].slug
           /\ store.rows[i] # store.rows[j]
           /\ \A k \in 1..Len(store.rows) :
                  store.rows[k] = store.rows[j] => k > i

(* keyword search *)

IsKeywordSearch == ret # NoRet /\ ret.op = "keyword_search"

\* the text as keyword_search compares it
Folded(text, case_sensitive) == IF case_sensitive THEN text ELSE Lower(text)

\* the claimed score of a candidate before the cap, in units of
\* 1 / (10 * totalTerms): 0.1 per occurrence in the content, 0.3 per term
\* first met within the first 100 characters, 0.5 per occurrence in the
\* title, and 0.5 * distinctTermsMatched / totalTerms
ClaimedKeywordScore(content, title, terms) ==
    LET n == Len(terms)
        perTerm == [k \in 1..n |->
            n * Count(content, terms[k])
            + (IF Find(content, terms[k]) # -1 /\ Find(content, terms[k]) < 100
               THEN 3 * n ELSE 0)
            + 5 * n * Count(title, terms[k])]
        matched == {t \in {terms[k] : k \in 1..n} :
                       Find(content, t) # -1 \/ Find(title, t) # -1}
        sum[k \in 0..n] == IF k = 0 THEN 0 ELSE sum[k - 1] + perTerm[k]
    IN  sum[n] + 5 * Cardinality(matched)

\* C15: every reported keyword score is min(1.0, S), S the claimed sum with
\* the coverage bonus 0.5 * distinctTermsMatched / totalTerms applied for
\* any number of query terms.
C15_KeywordScoreFormula ==
    IsKeywordSearch =>
        \A i \in 1..Len(ret.out.value) :
            LET r == ret.out.value[i]
                terms == QueryTerms(ret.query, ret.case_sensitive)
            IN  r.exact = Min(r.den,
                    ClaimedKeywordScore(Folded(r.content, ret.case_sensitive),
                                        Folded(r.title, ret.case_sensitive),
                                        terms))

\* the place in the table of the row a result was made from
RowOf(r) ==
    CHOOSE i \in 1..Len(store.rows) :
        /\ store.rows[i].content = r.content
        /\ store.rows[i].post_slug = r.slug

\* the text holds at least one of the terms
HoldsATerm(text, terms) == \E k \in 1..Len(terms) : Find(text, terms[k]) # -1

\* C16: keyword_search returns at most `limit` entries, by descending score
\* with equal scores in candidate order, every score in (0, 1], and every
\* returned row holds at least one query term in its content (in lower
\* case unless case_sensitive).
C16_KeywordRanking ==
    IsKeywordSearch =>
        LET out == ret.out.value
            terms == QueryTerms(ret.query, ret.case_sensitive)
        IN  /\ Len(out) <= ret.limit
            /\ \A k \in 1..Len(out) :
                   /\ FloatLess(FloatZero, out[k].score)
                   /\ ~FloatLess(FloatOne, out[k].score)
                   /\ HoldsATerm(Folded(out[k].content, ret.case_sensitive),
                                 terms)
            /\ \A k \in 1..(Len(out) - 1) :
                   \/ FloatLess(out[k + 1].score, out[k].score)
                   \/ /\ out[k].score = out[k + 1].score
                      /\ RowOf(out[k]) < RowOf(out[k + 1])

(* category filter *)

Filtered == ret.category_filter # None /\ ret.category_filter # ""

\* how many of the rows are among the `limit` nearest to q and reach the
\* threshold
ThresholdedNearest(rows, q, limit, threshold) ==
    Cardinality({i \in 1..Len(rows) :
        /\ Rank(rows, q, i) <= limit
        /\ ~FloatLess(ClaimedScore(SqDist(rows[i].vector, q)),
                      Threshold(threshold))})

RowsOfCategory(c) == SelectSeq(store.rows, LAMBDA row : row.category = c)

\* C17 as the specification states it: with a category filter a search returns the thresholded `limit`
\* nearest among the rows of that category, a keyword search ranks only
\* rows of that category, and every result has the category; without a
\* filter the rows of every category take part.
C17_CategoryFilter ==
    /\ (IsSearch \/ IsKeywordSearch) /\ Filtered =>
          \A k \in 1..Len(ret.out.value) :
              ret.out.value[k].category = ret.category_filter
    /\ SearchAnswered =>
          Len(ret.out.value) =
              ThresholdedNearest(
                  IF Filtered THEN RowsOfCategory(ret.category_filter)
                  ELSE store.rows,
                  Encode(model_name, Strip(ret.query)), ret.limit,
                  ret.threshold)
    /\ IsKeywordSearch /\ content_table # None /\ ret.fault = "none" =>
          LET terms == QueryTerms(ret.query, ret.case_sensitive)
              rows == IF Filtered THEN RowsOfCategory(ret.category_filter)
                      ELSE store.rows
              hits == {i \in 1..Len(rows) :
                          HoldsATerm(Folded(rows[i].content,
                                            ret.case_sensitive), terms)}
          IN  Cardinality(hits) <= ret.limit =>
                  \A i \in hits :
                      \E k \in 1..Len(ret.out.value) :
                          /\ ret.out.value[k].content = rows[i].content
                          /\ ret.out.value[k].slug = rows[i].post_slug

\* the nearest row overall is of another category and the store cut its
\* ranking to the limit before it filtered: the search for "engineering"
\* with limit 1 returns nothing although an engineering row reaches the
\* threshold
C17_FilteredAfterLimit ==
    /\ SearchAnswered
    /\ ret.category_filter = "engineering"
    /\ ret.limit = 1
    /\ ret.out.value = <<>>
    /\ \E i \in 1..Len(store.rows) :
           /\ store.rows[i].category = "blog"
           /\ Rank(store.rows, Encode(model_name, Strip(ret.query)), i) = 1
    /\ \E i \in 1..Len(store.rows) :
           /\ store.rows[i].category = "engineering"
           /\ ReachesThreshold(store.rows[i],
                               Encode(model_name, Strip(ret.query)))

(* statistics *)

\* get_indexing_stats returned, on a pipeline whose table is there and
\* answers
StatsAnswered ==
    /\ ret # NoRet
    /\ ret.op = "get_indexing_stats"
    /\ ret.fault = "none"
    /\ content_table # None
    /\ store.exists

\* C18: on an available table, also an empty one, get_indexing_stats
\* reports total_chunks as the number of rows and, for each category, the
\* number of its rows and of their distinct slugs; the category chunk
\* counts add up to total_chunks.
C18_StatsReflectTable ==
    StatsAnswered =>
        LET out == ret.out
        IN  /\ out.has_total_chunks
            /\ out.total_chunks = Len(store.rows)
            /\ DOMAIN out.categories = {"blog", "engineering"}
            /\ \A c \in DOMAIN out.categories :
                   /\ out.categories[c].chunks = Len(RowsOfCategory(c))
                   /\ out.categories[c].posts
                          = Cardinality({RowsOfCategory(c)[i].post_slug :
                                            i \in 1..Len(RowsOfCategory(c))})
            /\ DOMAIN out.categories = {"blog", "engineering"} =>
                   out.categories["blog"].chunks
                       + out.categories["engineering"].chunks
                   = out.total_chunks


\* create_chunks returned a list
IsCreateChunks == ret # NoRet /\ ret.op = "create_chunks" /\ ~ret.raised

\* ContentChunk refused a blank content and create_chunks raised
ChunksRaised == ret # NoRet /\ ret.op = "create_chunks" /\ ret.raised

\* C19: in each of the three chunking strategies the list that create_chunks
\* returns has chunk_index equal to the position in the list (0, 1, 2, ...
\* without gaps, also after a too-small piece was discarded) and start_char
\* non-decreasing from each chunk to the next.
C19_ChunkIndexIsPosition ==
    IsCreateChunks =>
        /\ \A k \in 1..Len(ret.out) : ret.out[k].chunk_index = k - 1
        /\ \A k \in 1..(Len(ret.out) - 1) :
               ret.out[k].start_char <= ret.out[k + 1].start_char

\* position i of the text lies in the [start_char, end_char) of some chunk
CoveredAt(i) ==
    \E k \in 1..Len(ret.out) :
        ret.out[k].start_char <= i /\ i < ret.out[k].end_char

\* C20: the [start_char, end_char) ranges of the chunks that create_chunks
\* returns cover the text so that every run of uncovered characters (before
\* the first chunk, between chunks, after the last one, text before the first
\* heading included) is no longer than min_chunk_size.
C20_CoverageWithinMinSize ==
    IsCreateChunks =>
        \A i \in 0..(Len(ret.text) - 1) : \A j \in i..(Len(ret.text) - 1) :
            (\A m \in i..j : ~CoveredAt(m)) =>
                j - i + 1 <= text_processor.config.min_chunk_size

ChunkIdsOf(chunks) == [k \in 1..Len(chunks) |-> chunks[k].chunk_id]

\* C21: every chunk that create_chunks returns has chunk_id = category, '_',
\* slug, '_' and its chunk_index padded with zeros to three digits, in all
\* three strategies; the chunk_ids of one list are pairwise distinct; a second
\* call with the same text, slug, category and configuration returns the
\* same sequence of chunk_ids.
C21_ChunkIdFormat ==
    IsCreateChunks =>
        /\ \A k \in 1..Len(ret.out) :
               ret.out[k].chunk_id =
                   ret.category \o "_" \o ret.post_slug \o "_"
                   \o (IF ret.out[k].chunk_index < 10 THEN "00"
                       ELSE IF ret.out[k].chunk_index < 100 THEN "0" ELSE "")
                   \o ToString(ret.out[k].chunk_index)
        /\ \A k, l \in 1..Len(ret.out) :
               k # l => ret.out[k].chunk_id # ret.out[l].chunk_id
        /\ ret.again => ChunkIdsOf(ret.out) = ChunkIdsOf(ret.before)

\* a second call on a text with a small section and then an oversized one,
\* whose sub-chunks were renumbered
C21_Witness ==
    /\ IsCreateChunks
    /\ ret.again
    /\ text_processor.config.preserve_sections
    /\ Len(ret.out) >= 3
    /\ ret.out[1].section_title # ret.out[2].section_title
    /\ ret.out[2].section_title = ret.out[3].section_title

\* create_chunks took the simple strategy
SimpleStrategy ==
    /\ ~text_processor.config.preserve_sections
    /\ ~text_processor.config.langchain_available

\* the titles of the sections of the text that are longer than chunk_size
OversizedTitles ==
    LET sections == extract_sections(ret.text)
    IN  {sections[k].title : k \in {l \in 1..Len(sections) :
             Len(sections[l].content) > text_processor.config.chunk_size}}

\* chunk k of the returned list came out of create_chunks_simple
FromSimple(k) ==
    \/ SimpleStrategy
    \/ /\ text_processor.config.preserve_sections
       /\ ret.out[k].section_title \in OversizedTitles

\* C27: every chunk that create_chunks_simple emits, sub-chunks of an
\* oversized section included, has a trimmed content of at least
\* min_chunk_size and at most chunk_size characters and a range
\* end_char - start_char of at most chunk_size; a window whose trimmed text is
\* shorter than min_chunk_size is discarded and uses up no chunk_index.
C27_ChunkSizeBounds ==
    IsCreateChunks =>
        /\ \A k \in 1..Len(ret.out) :
               FromSimple(k) =>
                   /\ Len(Strip(ret.out[k].content))
                          >= text_processor.config.min_chunk_size
                   /\ Len(Strip(ret.out[k].content))
                          <= text_processor.config.chunk_size
                   /\ ret.out[k].end_char - ret.out[k].start_char
                          <= text_processor.config.chunk_size
        /\ SimpleStrategy =>
               \A k \in 1..Len(ret.out) : ret.out[k].chunk_index = k - 1

\* the simple strategy emitted a chunk, discarded the window after it and
\* emitted another chunk after that
C27_Witness ==
    /\ IsCreateChunks
    /\ SimpleStrategy
    /\ \E k \in 1..(Len(ret.out) - 1) :
           LET text == clean_text(ret.text)
               next == SimpleIteration(text_processor.config, text,
                                       ret.out[k].start_char).start
           IN  /\ next < Len(text)
               /\ SimpleIteration(text_processor.config, text, next).skipped

\* C25: create_chunks_simple terminates for every text and every chunking
\* configuration with chunk_size > 0, chunk_overlap >= 0 and
\* min_chunk_size >= 0, chunk_overlap >= chunk_size included: the start of
\* the window strictly increases on every pass through the loop, whether the
\* window is emitted or discarded.
C25_StartIncreases ==
    [][(InSimpleLoop /\ ret'.op = "create_chunks_simple"
            /\ ret'.iterations = ret.iterations + 1 /\ ret'.pc # "raised")
          => ret'.start > ret.start]_vars

\* C28: in every keyword_search result term_matches is at most the number of
\* query terms, so that the coverage term_matches / totalTerms lies in [0, 1]
\* and the coverage bonus is at most 0.5, also for a term that occurs both in
\* the title and in the content of the candidate.
C28_TermMatchesBounded ==
    IsKeywordSearch =>
        \A i \in 1..Len(ret.out.value) :
            ret.out.value[i].term_matches
                <= Len(QueryTerms(ret.query, ret.case_sensitive))

\* the inclusion policy: archived never, draft only with include_drafts
Includable(post) ==
    /\ post.status # "archived"
    /\ post.status = "draft" => include_drafts

\* C22: no archived document is returned by load_all_posts or processed by
\* index_all_content or index_single_post, and a draft is returned or
\* processed only when include_drafts is set.
C22_InclusionPolicy ==
    /\ \A i \in 1..Len(load_all_posts) : Includable(load_all_posts[i])
    /\ \A c \in 1..Len(calls) :
          /\ calls[c].op = "index_all" =>
                 \A i \in 1..Len(calls[c].posts) :
                     Includable(calls[c].posts[i])
          /\ (calls[c].op = "index_single" /\ results[c].posts_processed > 0)
                 => \A i \in 1..Len(Corpus) :
                        (Corpus[i].category = calls[c].category
                            /\ Corpus[i].slug = calls[c].slug)
                          => Includable(Corpus[i])

\* C23: one document that fails to parse or validate does not make
\* load_all_posts raise: it is left out, every other valid document is still
\* returned, and the failure is reported in an error list, so that it is in
\* IndexingResult.errors after index_all_content.
C23_LoadErrorsReported ==
    \A c \in 1..Len(calls) :
        calls[c].op = "index_all" =>
            /\ calls[c].pc = "loop" =>
                   \A i \in 1..Len(Corpus) :
                       (/\ Corpus[i].defect = "none"
                        /\ Includable(Corpus[i])
                        /\ calls[c].category_filter
                               \in {None, Corpus[i].category})
                         => \E k \in 1..Len(calls[c].posts) :
                                calls[c].posts[k] = Corpus[i]
            /\ (calls[c].pc = "done" /\ results[c].status = "completed") =>
                   \A i \in 1..Len(LoadErrors) :
                       \E k \in 1..Len(results[c].errors) :
                           results[c].errors[k] = LoadErrors[i]

\* a step that sets the status or completed_at of result c is a step of the
\* _finish_indexing_operation of call c itself, and result c was still
\* running
FinalizesOnlyOwn ==
    \A c \in 1..Len(results) :
        (\/ results'[c].status # results[c].status
         \/ results'[c].completed_at # results[c].completed_at)
          => /\ calls[c].pc \in {"stamp", "status"}
             /\ calls'[c].pc # calls[c].pc
             /\ results[c].status = "running"

\* when every call has returned, no result is left running
NoneLeftRunning ==
    NoActiveCall => \A c \in 1..Len(results) : results[c].status # "running"

\* every call has returned and self.current_result is the result that was
\* built first: the later call published its result before the earlier one
PublishedOutOfOrder ==
    /\ NoActiveCall
    /\ Len(calls) = 2
    /\ current_result = 1

\* a result carries a completed_at earlier than its started_at: the time
\* was read by another call before this result was built
StampedBeforeStarted ==
    \E c \in 1..Len(results) :
        /\ results[c].completed_at # 0
        /\ results[c].completed_at < results[c].started_at

\* C26: when two indexing calls on one pipeline overlap in time, each call
\* finalizes only the IndexingResult that it created: no call sets the status
\* or completed_at of the other call's result, no result is finalized twice,
\* and both results end in a final status.
C26_OverlapFinalizesOwn == []NoneLeftRunning /\ [][FinalizesOnlyOwn]_vars

IsHealthCheck == ret # NoRet /\ ret.op = "health_check"

\* C24: the health check reports that the sample search succeeds only if it
\* did: with the store unreachable (db None or no table) or the sample query
\* failing inside the pipeline, health_check does not answer
\* test_search_successful = true with status 'healthy'.
C24_HealthReflectsSearch ==
    (/\ IsHealthCheck
     /\ ret.out.status = "healthy"
     /\ ret.out.test_search_successful)
      => /\ db # None
         /\ content_table # None
         /\ store.exists
         /\ ~ret.sample.raised

\* C29: when index_all_content returns, posts_processed + posts_skipped is
\* the number of documents the loop went over and posts_updated is the number
\* of documents processed without error; posts_updated is never negative and
\* never above posts_processed, whatever documents succeed or fail.
C29_CountersAddUp ==
    \A c \in 1..Len(calls) :
        (/\ calls[c].op = "index_all"
         /\ calls[c].pc = "done"
         /\ results[c].status = "completed")
          => /\ results[c].posts_processed + results[c].posts_skipped
                    = Len(calls[c].posts)
             /\ results[c].posts_updated = results[c].posts_processed
             /\ results[c].posts_updated >= 0
             /\ results[c].posts_updated <= results[c].posts_processed

\* the step constructs a pipeline over a table whose vectors have the width
\* of the configured model
ConstructsOverMatchingTable ==
    /\ constructs' = constructs + 1
    /\ store.exists
    /\ store.width = EmbeddingDimension(model_name')

\* C30: constructing an IndexingPipeline never removes indexed rows from an
\* existing table whose schema matches the configured model: the rows after
\* construction are the rows before, also when listing or opening the table
\* raises once during construction.
C30_ConstructKeepsRows ==
    [][ConstructsOverMatchingTable
          => store'.exists /\ store'.rows = store.rows]_vars

====
